---- MODULE Spec2Model ----
(***************************************************************************)
(* A model of the evidence identity scripts of chittyapps/chittychat.      *)
(* The repository is a set of independent command-line scripts.  Each      *)
(* script (or chain of scripts working on the same files) is modelled as   *)
(* a state machine of its own; the variable `script` records which of them *)
(* a behaviour runs, and each has its own specification.                   *)
(***************************************************************************)
EXTENDS Integers, Sequences, FiniteSets, TLC

VARIABLES
    script,            \* which script (group) this behaviour runs
    \* ---- environment and the identity service id.chitty.cc
    env_token,         \* CHITTY_ID_TOKEN is set
    svc_minted,        \* identifiers the service has issued so far (1..svc_minted)
    \* ---- out/*.csv files of the timeline scripts
    timeline_master,   \* out/timeline_master.csv: sequence of rows
    file_with_ids,     \* out/timeline_master_with_chittyids.csv
    file_enhanced,     \* out/timeline_enhanced_for_notion.csv
    \* ---- add_chittyids_to_csv.py: process_timeline_csv / request_chitty_id
    csv_pc,            \* position of process_timeline_csv
    csv_rows,          \* rows read from the input file
    csv_idx,           \* 1-based index of the row being processed (Python idx + 1)
    csv_processed,     \* `processed` counter
    rq_requests,       \* HTTP requests sent by the current request_chitty_id call
    rq_last,           \* last request_chitty_id call: its outcome, and the status of
                       \* the last response it received (0 before any response)
    csv_exit,          \* exit code of the script run through main, -1 before it exits
    \* ---- timeline_to_notion_sync.py: process_timeline_for_notion
    notion_pc,         \* position of process_timeline_for_notion
    notion_idx,        \* 1-based index of the row being read (Python idx + 1)
    notion_entries,    \* chitty_id of every entry appended to notion_entries
    notion_exit,       \* exit code of the script run through main, -1 before it exits
    \* ---- evidence_analyzer_chittyos.py: ChittyOSEvidenceAnalyzer
    env_r2,            \* R2_ENDPOINT, R2_ACCESS_KEY and R2_SECRET_KEY are set
    env_neon,          \* NEON_CONNECTION_STRING is set
    w_pc,              \* per worker: position in archive_source_document
    w_path,            \* per worker: file_path of its current call
    w_chitty,          \* per worker: the local chitty_id of its current call
    r2_objects,        \* file hashes uploaded by r2_put
    neon_artifacts,    \* file hashes passed to upsert_artifact
    neon_evidence,     \* chitty ids passed to upsert_evidence
    mint_requests,     \* history: per content hash, mint requests sent for it
    mint_obtained,     \* history: per content hash, the chitty ids calls obtained
    timeline_latest,   \* timeline_latest.csv: the chitty_id column
    \* ---- the batch loops run_analysis, process_evidence_batch, _mint_all_evidence
    loop_fn,           \* which of the three loops runs
    loop_n,            \* number of items handed to the loop
    loop_pos,          \* 1-based position of the next item
    loop_pc,           \* "loop", "done" (the function went on) or "aborted" (it raised)
    loop_attempted,    \* positions whose loop body was entered
    loop_count,        \* archived_count / results["processed"] / minted_count
    loop_errors,       \* exceptions the loop caught
    loop_first_failed, \* position of the first item that raised, 0 if none
    \* ---- chain_status_workflow.py: process_evidence_pipeline
    pl_pc,             \* position of process_evidence_pipeline
    pl_stages,         \* pipeline_results["stages"][s]["status"]
    pl_counts,         \* the count each completed stage recorded
    pl_end,            \* pipeline_results has the key "pipeline_end"
    pl_success,        \* pipeline_results["success"], "unset" while the key is absent
    pl_errors,         \* len(pipeline_results["errors"])
    pl_saved,          \* pipeline_results.json was written
    \* ---- chittylegder_integration.py: ChittyLedgerBridge
    flat_output,       \* the files of flat_output
    metadata,          \* per 16-character hash prefix: the metadata file
    ledger,            \* the pages of the ChittyLedger Notion database
    mappings,          \* evidence_mappings.json: set of entries, keyed by evidence_id
    sync_pc,           \* position of sync_pending_evidence
    sync_remaining,    \* files of flat_files the loop has not reached yet
    sync_existing,     \* existing_mappings, loaded once when the run starts
    sync_cur,          \* the file being minted
    sync_page,         \* the page just created for it (response["id"])
    sync_count,        \* synced_count
    sync_result,       \* how the last run ended
    sync_prev_clean,   \* the run before the current one returned normally
    sync_killed,       \* file hashes whose mint was cut between page and mapping
    mint_caller,       \* the function whose call of mint_evidence is or was last running
    \* ---- process_flow_of_funds.py: generate_early_preview
    pv_files,          \* the files of the package that match a priority pattern
    pv_pc,             \* position of generate_early_preview
    pv_list,           \* evidence_files of the current run, as enumerated and cut
    pv_pos,            \* 1-based position of process_evidence_batch in its paths
    pv_attempted,      \* the files the current run has processed, in order
    pv_stats,          \* statistics of the current run
    pv_prev_attempted, \* the files the run before processed, in order
    pv_prev_stats,     \* statistics of the run before
    pv_runs,           \* number of completed runs
    \* ---- rclone_to_notion_sync.py: get_all_files_from_rclone
    rc_files,          \* files, the listing rclone returned
    rc_pc,             \* position of get_all_files_from_rclone
    rc_idx,            \* 1-based position of the deduplication loop in files
    rc_seen,           \* seen, a function from the keys met so far to a file
    rc_dedup,          \* deduplicated
    \* ---- evidence_cli.py: ChittyOSEvidenceCLI
    cli_metadata,      \* the files of METADATA: what was stored and how the file reads now
    cli_case,          \* the evidence files of the case directory
    cli_op,            \* the last operation, list_evidence or scan
    cli_result,        \* how it ended: returned or raised
    cli_listing,       \* the list list_evidence returned
    cli_new,           \* new_evidence of scan
    \* ---- chain_status_workflow.py: update_evidence_status
    st_status,         \* Chain Status of the evidence page in ChittyLedger
    st_events,         \* chain_events.jsonl: the status of every logged event
    st_returned,       \* what the last update_evidence_status returned
    \* ---- chittyos_service_client.py: ingest_evidence
    ing_pc,            \* the step ingest_evidence is about to call, or how it ended
    ing_places,        \* number of places the caller passed
    ing_canonical,     \* len(canonical["places"])
    ing_calls,         \* the service methods called by the current ingest_evidence, in order
    ing_failed,        \* the step of the current call that failed, "none" if none has
    ing_stored,        \* records the schema service stored
    \* ---- chittyos_service_client.py: resolve_service
    sc_token,          \* CHITTY_REGISTRY_TOKEN is set
    sc_cache,          \* _service_cache, a function from the cached service names to base URLs
    sc_requests,       \* GET requests sent to the registry so far
    sc_last,           \* the last resolve_service call: name, result, and whether it asked the registry
    \* ---- evidence_cli.py generate_file_hash / dedupe_and_organize.py calculate_file_hash
    fs_files,          \* the content (a byte sequence) of every file path
    fs_readable,       \* the paths that open() can read
    h_fn,              \* the hash operation running or last run
    h_path,            \* its file_path argument
    h_pos,             \* read position of the open file, 0 when no file is open
    h_hasher,          \* state of the hashlib.sha256() object
    h_result,          \* per path, the last value returned for it (-1 nothing yet, -2 None or raised)
    \* ---- dedupe_and_organize.py: find_duplicates / remove_duplicates
    dd_tree,           \* the directory tree: what every path is (nothing, a regular file, a symbolic link)
    dd_before,         \* the tree when the running remove_duplicates call began
    dd_duplicates,     \* the duplicates argument: the path lists, in dictionary order
    dd_dry_run,        \* the dry_run argument of the running call
    dd_pc,             \* idle, found (duplicates at hand), removing, returned
    dd_queue,          \* paths the loops of remove_duplicates have still to visit
    dd_kept,           \* the keep_file paths of the running call
    dd_removed,        \* removed_count
    \* ---- chittylegder_integration.py: mint_evidence in several processes over one metadata directory
    cm_pc,             \* where each process stands in mint_evidence / _store_mapping
    cm_evidence,       \* the evidence_id each process got from pages.create
    cm_loaded,         \* the mappings dictionary each process holds in memory
    cm_state,          \* evidence_mappings.json is absent, json (well-formed) or empty (opened for writing, nothing dumped yet)
    cm_file,           \* the entries of evidence_mappings.json
    cm_next,           \* the id the ledger gives to the next page
    cm_written         \* the evidence ids whose _store_mapping call has written the file and returned

varsEnv == <<env_token, svc_minted>>

varsCsv == <<timeline_master, file_with_ids, file_enhanced,
             csv_pc, csv_rows, csv_idx, csv_processed, rq_requests, rq_last,
             csv_exit>>

varsNotion == <<notion_pc, notion_idx, notion_entries, notion_exit>>

varsAnalyzer == <<env_r2, env_neon, w_pc, w_path, w_chitty, r2_objects, neon_artifacts,
                  neon_evidence, mint_requests, mint_obtained, timeline_latest>>

varsBatch == <<loop_fn, loop_n, loop_pos, loop_pc, loop_attempted, loop_count,
               loop_errors, loop_first_failed>>

varsPipeline == <<pl_pc, pl_stages, pl_counts, pl_end, pl_success, pl_errors, pl_saved>>

varsLedger == <<flat_output, metadata, ledger, mappings, sync_pc, sync_remaining,
                sync_existing, sync_cur, sync_page, sync_count, sync_result,
                sync_prev_clean, sync_killed, mint_caller>>

varsPreview == <<pv_files, pv_pc, pv_list, pv_pos, pv_attempted, pv_stats,
                 pv_prev_attempted, pv_prev_stats, pv_runs>>

varsRclone == <<rc_files, rc_pc, rc_idx, rc_seen, rc_dedup>>

varsCli == <<cli_metadata, cli_case, cli_op, cli_result, cli_listing, cli_new>>

varsStatus == <<st_status, st_events, st_returned>>

varsIngest == <<ing_pc, ing_places, ing_canonical, ing_calls, ing_failed, ing_stored>>

varsRegistry == <<sc_token, sc_cache, sc_requests, sc_last>>

varsHash == <<fs_files, fs_readable, h_fn, h_path, h_pos, h_hasher, h_result>>

varsDedupe == <<dd_tree, dd_before, dd_duplicates, dd_dry_run, dd_pc, dd_queue,
                dd_kept, dd_removed>>

varsMapping == <<cm_pc, cm_evidence, cm_loaded, cm_state, cm_file, cm_next, cm_written>>

vars == <<script, varsEnv, varsCsv, varsNotion, varsAnalyzer, varsBatch, varsPipeline,
          varsLedger, varsPreview, varsRclone, varsCli, varsStatus, varsIngest,
          varsRegistry, varsHash, varsDedupe, varsMapping>>

\* what the actions of one script leave alone
otherThanCsv == <<varsNotion, varsAnalyzer, varsBatch, varsPipeline, varsLedger,
                  varsPreview, varsRclone, varsCli, varsStatus, varsIngest,
                  varsRegistry, varsHash, varsDedupe, varsMapping>>
otherThanNotion == <<varsCsv, varsAnalyzer, varsBatch, varsPipeline, varsLedger,
                     varsPreview, varsRclone, varsCli, varsStatus, varsIngest,
                     varsRegistry, varsHash, varsDedupe, varsMapping>>
otherThanAnalyzer == <<varsCsv, varsNotion, varsBatch, varsPipeline, varsLedger,
                       varsPreview, varsRclone, varsCli, varsStatus, varsIngest,
                       varsRegistry, varsHash, varsDedupe, varsMapping>>
otherThanBatch == <<varsEnv, varsCsv, varsNotion, varsAnalyzer, varsPipeline,
                    varsLedger, varsPreview, varsRclone, varsCli, varsStatus,
                    varsIngest, varsRegistry, varsHash, varsDedupe, varsMapping>>
otherThanPipeline == <<varsEnv, varsCsv, varsNotion, varsAnalyzer, varsBatch,
                       varsLedger, varsPreview, varsRclone, varsCli, varsStatus,
                       varsIngest, varsRegistry, varsHash, varsDedupe, varsMapping>>
otherThanLedger == <<varsEnv, varsCsv, varsNotion, varsAnalyzer, varsBatch,
                     varsPipeline, varsPreview, varsRclone, varsCli, varsStatus,
                     varsIngest, varsRegistry, varsHash, varsDedupe, varsMapping>>
otherThanPreview == <<varsEnv, varsCsv, varsNotion, varsAnalyzer, varsBatch,
                      varsPipeline, varsLedger, varsRclone, varsCli, varsStatus,
                      varsIngest, varsRegistry, varsHash, varsDedupe, varsMapping>>
otherThanRclone == <<varsEnv, varsCsv, varsNotion, varsAnalyzer, varsBatch,
                     varsPipeline, varsLedger, varsPreview, varsCli, varsStatus,
                     varsIngest, varsRegistry, varsHash, varsDedupe, varsMapping>>
otherThanCli == <<varsEnv, varsCsv, varsNotion, varsAnalyzer, varsBatch, varsPipeline,
                  varsLedger, varsPreview, varsRclone, varsStatus, varsIngest,
                  varsRegistry, varsHash, varsDedupe, varsMapping>>
otherThanStatus == <<varsEnv, varsCsv, varsNotion, varsAnalyzer, varsBatch,
                     varsPipeline, varsLedger, varsPreview, varsRclone, varsCli,
                     varsIngest, varsRegistry, varsHash, varsDedupe, varsMapping>>
otherThanIngest == <<varsEnv, varsCsv, varsNotion, varsAnalyzer, varsBatch,
                     varsPipeline, varsLedger, varsPreview, varsRclone, varsCli,
                     varsStatus, varsRegistry, varsHash, varsDedupe, varsMapping>>
otherThanRegistry == <<varsEnv, varsCsv, varsNotion, varsAnalyzer, varsBatch,
                       varsPipeline, varsLedger, varsPreview, varsRclone, varsCli,
                       varsStatus, varsIngest, varsHash, varsDedupe, varsMapping>>
otherThanHash == <<varsEnv, varsCsv, varsNotion, varsAnalyzer, varsBatch, varsPipeline,
                   varsLedger, varsPreview, varsRclone, varsCli, varsStatus,
                   varsIngest, varsRegistry, varsDedupe, varsMapping>>
otherThanDedupe == <<varsEnv, varsCsv, varsNotion, varsAnalyzer, varsBatch,
                     varsPipeline, varsLedger, varsPreview, varsRclone, varsCli,
                     varsStatus, varsIngest, varsRegistry, varsHash, varsMapping>>
otherThanMapping == <<varsEnv, varsCsv, varsNotion, varsAnalyzer, varsBatch,
                      varsPipeline, varsLedger, varsPreview, varsRclone, varsCli,
                      varsStatus, varsIngest, varsRegistry, varsHash, varsDedupe>>

----------------------------------------------------------------------------
(* Bounds of the model *)

MaxRows == 2          \* rows of out/timeline_master.csv
MaxMinted == 3        \* identifiers the service issues in one behaviour
MaxRequests == 3      \* the per-call request counter saturates here

Min(a, b) == IF a < b THEN a ELSE b

----------------------------------------------------------------------------
(* Identifiers.  The scripts write several kinds of string into the        *)
(* identifier columns; a record keeps the parts the format string uses.    *)

NoId == [kind |-> "none", n |-> 0, ent |-> "", chk |-> ""]
\* result['chitty_id'] of the k-th successful /v1/mint response
ServiceId(k) == [kind |-> "service", n |-> k, ent |-> "", chk |-> ""]
\* f"ERROR_{idx}"
ErrorId(idx) == [kind |-> "ERROR", n |-> idx, ent |-> "", chk |-> ""]
\* f"PENDING_{idx}"
PendingId(idx) == [kind |-> "PENDING", n |-> idx, ent |-> "", chk |-> ""]
\* f"PENDING_CHITTYID_{row.name}_{self.case_id}"
PendingChittyId(idx) == [kind |-> "PENDING_CHITTYID", n |-> idx, ent |-> "", chk |-> ""]

Checksums == {"A7Q2", "ZZ01"}
\* f"CHITTY-{entity_type}-{sequence}-{checksum}", the checksum drawn at random
generate_fake_chittyid(entity, index, checksum) ==
    [kind |-> "CHITTY", n |-> index, ent |-> entity, chk |-> checksum]

IsServiceId(id) == id.kind = "service"

----------------------------------------------------------------------------
(* Timeline rows.  A description is abstracted to what the scripts test:   *)
(* "" (empty), a text mentioning 'email', or a long text with no keyword.  *)

Descriptions == {"", "email", "other"}

Row(d) == [description |-> d, service_chitty_id |-> NoId, evidence_type |-> ""]

RECURSIVE SeqsUpTo(_, _)
SeqsUpTo(S, n) ==
    IF n = 0 THEN {<<>>}
    ELSE LET shorter == SeqsUpTo(S, n - 1)
         IN  shorter \cup {Append(s, x) : s \in {t \in shorter : Len(t) = n - 1}, x \in S}

MasterFiles == SeqsUpTo({Row(d) : d \in Descriptions}, MaxRows)

NoFile == [exists |-> FALSE, rows |-> <<>>]
File(rows) == [exists |-> TRUE, rows |-> rows]

\* detect_evidence_type(description, source_file)
detect_evidence_type(d) ==
    IF d = "" THEN "UNKNOWN"
    ELSE IF d = "email" THEN "EMAIL_EVIDENCE"
    ELSE "GENERAL_EVIDENCE"

\* update_csv_with_fake_chittyids: entity from the evidence type
fake_entity(etype) ==
    IF etype = "EMAIL_EVIDENCE" THEN "COMM" ELSE "EVNT"

----------------------------------------------------------------------------
(* add_chittyids_to_csv.py *)

HttpCodes == {200, 429, 500}

CsvIdle ==
    /\ csv_pc = "idle"

\* process_timeline_csv, lines 50-75: read the input, open (truncate) the output
process_timeline_csv_open ==
    /\ script = "add_chittyids_to_csv"
    /\ CsvIdle
    /\ csv_rows' = timeline_master
    /\ file_with_ids' = File(<<>>)
    /\ csv_idx' = 1
    /\ csv_processed' = 0
    /\ csv_pc' = "loop"
    /\ csv_exit' = -1
    /\ UNCHANGED otherThanCsv
    /\ UNCHANGED <<script, env_token, svc_minted, timeline_master, file_enhanced,
                   rq_requests, rq_last>>

\* (mutant) writerow inside the try block: a row whose mint failed is not written
WriteRow_minted_only(id) ==
    /\ file_with_ids' = IF id.kind = "ERROR" THEN file_with_ids
                        ELSE File(Append(file_with_ids.rows,
                                 [csv_rows[csv_idx] EXCEPT !.service_chitty_id = id]))
    /\ csv_idx' = csv_idx + 1
    /\ csv_pc' = "loop"

\* writer.writerow(row) with row['service_chitty_id'] = id, then the next row
WriteRow(id) ==
    /\ file_with_ids' = File(Append(file_with_ids.rows,
                               [csv_rows[csv_idx] EXCEPT !.service_chitty_id = id]))
    /\ csv_idx' = csv_idx + 1
    /\ csv_pc' = "loop"

\* request_chitty_id is entered (from the row loop): no token raises ValueError,
\* which process_timeline_csv catches and records as ERROR_{idx}; otherwise the
\* request is sent.
request_chitty_id_call ==
    /\ script = "add_chittyids_to_csv"
    /\ csv_pc = "loop"
    /\ csv_idx <= Len(csv_rows)
    /\ IF ~env_token
       THEN /\ WriteRow(ErrorId(csv_idx - 1))
            /\ rq_requests' = 0
            /\ rq_last' = [outcome |-> "raised", code |-> 0]
       ELSE /\ csv_pc' = "request"
            /\ rq_requests' = 1
            /\ rq_last' = [outcome |-> "pending", code |-> 0]
            /\ UNCHANGED <<file_with_ids, csv_idx>>
    /\ UNCHANGED <<otherThanCsv, csv_exit>>
    /\ UNCHANGED <<script, env_token, svc_minted, timeline_master, file_enhanced,
                   csv_rows, csv_processed>>

\* the response of urlopen(request): 200 returns result['chitty_id'];
\* (mutant) every HTTPError is retried
IsRateLimit_any_error(code) == code # 200

\* HTTPError 429 sleeps and retries; any other HTTPError raises
IsRateLimit(code) == code = 429

request_chitty_id_response(code) ==
    /\ script = "add_chittyids_to_csv"
    /\ csv_pc = "request"
    /\ IF code = 200
       THEN /\ svc_minted < MaxMinted
            /\ svc_minted' = svc_minted + 1
            /\ WriteRow(ServiceId(svc_minted + 1))
            /\ csv_processed' = csv_processed + 1
            /\ rq_last' = [outcome |-> "returned", code |-> code]
       ELSE IF IsRateLimit(code)
       THEN /\ csv_pc' = "sleep"
            /\ rq_last' = [outcome |-> "pending", code |-> code]
            /\ UNCHANGED <<svc_minted, file_with_ids, csv_idx, csv_processed>>
       ELSE /\ WriteRow(ErrorId(csv_idx - 1))
            /\ rq_last' = [outcome |-> "raised", code |-> code]
            /\ UNCHANGED <<svc_minted, csv_processed>>
    /\ UNCHANGED <<otherThanCsv, csv_exit>>
    /\ UNCHANGED <<script, env_token, timeline_master, file_enhanced, csv_rows,
                   rq_requests>>

\* after time.sleep(2): return request_chitty_id(entity_type, subtype), which
\* sends the request again.  The code keeps no attempt count.
request_chitty_id_retry ==
    /\ script = "add_chittyids_to_csv"
    /\ csv_pc = "sleep"
    /\ csv_pc' = "request"
    /\ rq_requests' = Min(rq_requests + 1, MaxRequests)
    /\ UNCHANGED <<otherThanCsv, csv_exit>>
    /\ UNCHANGED <<script, env_token, svc_minted, timeline_master, file_with_ids,
                   file_enhanced, csv_rows, csv_idx, csv_processed, rq_last>>

\* main, lines 121-123: without CHITTY_ID_TOKEN it returns False at once, and
\* the script exits with 1
main_no_token ==
    /\ script = "add_chittyids_to_csv"
    /\ CsvIdle
    /\ ~env_token
    /\ csv_exit' = 1
    /\ UNCHANGED otherThanCsv
    /\ UNCHANGED <<script, env_token, svc_minted, timeline_master, file_with_ids,
                   file_enhanced, csv_pc, csv_rows, csv_idx, csv_processed,
                   rq_requests, rq_last>>

\* the loop is exhausted: the output file is closed and its name returned.  When
\* main made the call (it does so only with a token) it prints the sample,
\* returns True (lines 126-140), and the script exits with 0.
process_timeline_csv_return ==
    /\ script = "add_chittyids_to_csv"
    /\ csv_pc = "loop"
    /\ csv_idx > Len(csv_rows)
    /\ csv_pc' = "idle"
    /\ csv_exit' = IF env_token THEN 0 ELSE csv_exit
    /\ UNCHANGED otherThanCsv
    /\ UNCHANGED <<script, env_token, svc_minted, timeline_master, file_with_ids,
                   file_enhanced, csv_rows, csv_idx, csv_processed, rq_requests, rq_last>>

----------------------------------------------------------------------------
(* enhance_timeline_for_notion.py and generate_fake_chittyids.py *)

\* enhance_timeline: every row of the input gets the new columns; the columns it
\* read, service_chitty_id among them, are written back as they were
EnhanceRow(row) == [row EXCEPT !.evidence_type = detect_evidence_type(row.description)]

enhance_timeline ==
    /\ script = "add_chittyids_to_csv"
    /\ CsvIdle
    /\ file_with_ids.exists
    /\ file_enhanced' = File([i \in 1..Len(file_with_ids.rows) |->
                                 EnhanceRow(file_with_ids.rows[i])])
    /\ UNCHANGED <<otherThanCsv, csv_exit>>
    /\ UNCHANGED <<script, env_token, svc_minted, timeline_master, file_with_ids,
                   csv_pc, csv_rows, csv_idx, csv_processed, rq_requests, rq_last>>

\* update_csv_with_fake_chittyids: row['service_chitty_id'] = fake_id for every row
FakeRow(row, idx, checksum) ==
    [row EXCEPT !.service_chitty_id =
        generate_fake_chittyid(fake_entity(row.evidence_type), idx, checksum)]

update_csv_with_fake_chittyids ==
    /\ script = "add_chittyids_to_csv"
    /\ CsvIdle
    /\ file_enhanced.exists
    /\ \E chk \in [1..Len(file_enhanced.rows) -> Checksums] :
         file_with_ids' = File([i \in 1..Len(file_enhanced.rows) |->
                                   FakeRow(file_enhanced.rows[i], i - 1, chk[i])])
    /\ UNCHANGED <<otherThanCsv, csv_exit>>
    /\ UNCHANGED <<script, env_token, svc_minted, timeline_master, file_enhanced,
                   csv_pc, csv_rows, csv_idx, csv_processed, rq_requests, rq_last>>

----------------------------------------------------------------------------
(* timeline_to_notion_sync.py *)

\* process_timeline_for_notion, lines 47-53: open out/timeline_master.csv
process_timeline_for_notion_open ==
    /\ script = "timeline_to_notion_sync"
    /\ notion_pc = "idle"
    /\ notion_pc' = "loop"
    /\ notion_idx' = 1
    /\ notion_entries' = <<>>
    /\ notion_exit' = -1
    /\ UNCHANGED <<script, varsEnv, otherThanNotion>>

\* mint_chitty_id: no token raises ValueError, a response that is not ok raises
\* Exception, an ok response returns response.json()['chitty_id']
mint_chitty_id_ok(code) == env_token /\ code = 200

\* the chitty_id of a row: the minted one, or f"PENDING_{idx}" when
\* mint_chitty_id raised
notion_chitty_id(code, idx) ==
    IF mint_chitty_id_ok(code) THEN ServiceId(svc_minted + 1) ELSE PendingId(idx)

\* one iteration of the row loop, lines 56-118
process_timeline_for_notion_row(code) ==
    /\ script = "timeline_to_notion_sync"
    /\ notion_pc = "loop"
    /\ notion_idx <= Len(timeline_master)
    /\ notion_idx' = notion_idx + 1
    /\ IF timeline_master[notion_idx].description = ""
       THEN UNCHANGED <<notion_entries, svc_minted>>
       ELSE /\ mint_chitty_id_ok(code) => svc_minted < MaxMinted
            /\ svc_minted' = IF mint_chitty_id_ok(code) THEN svc_minted + 1 ELSE svc_minted
            /\ notion_entries' = Append(notion_entries,
                                        notion_chitty_id(code, notion_idx - 1))
    /\ UNCHANGED <<script, env_token, notion_pc, notion_exit, otherThanNotion>>

\* return notion_entries; main (lines 208-256) goes on without a token too,
\* writes the two JSON files and returns True: the script exits with 0
process_timeline_for_notion_return ==
    /\ script = "timeline_to_notion_sync"
    /\ notion_pc = "loop"
    /\ notion_idx > Len(timeline_master)
    /\ notion_pc' = "idle"
    /\ notion_exit' = 0
    /\ UNCHANGED <<script, varsEnv, notion_idx, notion_entries, otherThanNotion>>

----------------------------------------------------------------------------
(* evidence_analyzer_chittyos.py: ChittyOSEvidenceAnalyzer *)

NWorkers == 2
Workers == 1..NWorkers

\* the input directory: a.txt and b.txt hold the same bytes, c.txt other bytes
Paths == {"a.txt", "b.txt", "c.txt"}
FileBytes(path) == IF path = "c.txt" THEN "Y" ELSE "X"

\* compute_file_hash (inherited from EvidenceAnalyzerV2): the digest of the bytes
compute_file_hash(path) == <<"sha256", FileBytes(path)>>
Hashes == {compute_file_hash(p) : p \in Paths}

NoPath == "-"

RECURSIVE SumOver(_, _)
SumOver(f, S) ==
    IF S = {} THEN 0
    ELSE LET x == CHOOSE y \in S : TRUE IN f[x] + SumOver(f, S \ {x})

\* archive_source_document, lines 110-124: hash, read, r2_put.  r2_put raises
\* ValueError when the R2 credentials are not configured.
archive_source_document_begin(w, path) ==
    /\ script = "evidence_analyzer_chittyos"
    /\ w_pc[w] = "idle"
    /\ w_path' = [w_path EXCEPT ![w] = path]
    /\ w_chitty' = [w_chitty EXCEPT ![w] = NoId]
    /\ IF env_r2
       THEN /\ r2_objects' = r2_objects \cup {compute_file_hash(path)}
            /\ w_pc' = [w_pc EXCEPT ![w] = "uploaded"]
       ELSE /\ w_pc' = [w_pc EXCEPT ![w] = "raised"]
            /\ UNCHANGED r2_objects
    /\ UNCHANGED <<script, varsEnv, otherThanAnalyzer, env_r2, env_neon,
                   neon_artifacts, neon_evidence, mint_requests, mint_obtained,
                   timeline_latest>>

\* request_chitty_id, lines 82-93: ValueError without a token, otherwise the
\* POST to /v1/mint is sent (for every call: content_hash is not looked at)
request_chitty_id_post(w) ==
    /\ script = "evidence_analyzer_chittyos"
    /\ w_pc[w] = "uploaded"
    /\ IF env_token
       THEN /\ SumOver(mint_requests, Hashes) < MaxMinted
            /\ mint_requests' = [mint_requests EXCEPT
                                    ![compute_file_hash(w_path[w])] = @ + 1]
            /\ w_pc' = [w_pc EXCEPT ![w] = "minting"]
       ELSE /\ w_pc' = [w_pc EXCEPT ![w] = "raised"]
            /\ UNCHANGED mint_requests
    /\ UNCHANGED <<script, varsEnv, otherThanAnalyzer, env_r2, env_neon, w_path,
                   w_chitty, r2_objects, neon_artifacts, neon_evidence, mint_obtained,
                   timeline_latest>>

\* request_chitty_id, lines 94-97: raise_for_status, else result["chitty_id"]
request_chitty_id_result(w, code) ==
    /\ script = "evidence_analyzer_chittyos"
    /\ w_pc[w] = "minting"
    /\ IF code = 200
       THEN /\ svc_minted' = svc_minted + 1
            /\ w_chitty' = [w_chitty EXCEPT ![w] = ServiceId(svc_minted + 1)]
            /\ mint_obtained' = [mint_obtained EXCEPT
                                    ![compute_file_hash(w_path[w])] =
                                        @ \cup {ServiceId(svc_minted + 1)}]
            /\ w_pc' = [w_pc EXCEPT ![w] = "minted"]
       ELSE /\ w_pc' = [w_pc EXCEPT ![w] = "raised"]
            /\ UNCHANGED <<svc_minted, w_chitty, mint_obtained>>
    /\ UNCHANGED <<script, env_token, otherThanAnalyzer, env_r2, env_neon, w_path,
                   r2_objects, neon_artifacts, neon_evidence, mint_requests,
                   timeline_latest>>

\* upsert_artifact: ValueError without NEON_CONNECTION_STRING, else the upsert
upsert_artifact(w) ==
    /\ script = "evidence_analyzer_chittyos"
    /\ w_pc[w] = "minted"
    /\ IF env_neon
       THEN /\ neon_artifacts' = neon_artifacts \cup {compute_file_hash(w_path[w])}
            /\ w_pc' = [w_pc EXCEPT ![w] = "artifact"]
       ELSE /\ w_pc' = [w_pc EXCEPT ![w] = "raised"]
            /\ UNCHANGED neon_artifacts
    /\ UNCHANGED <<script, varsEnv, otherThanAnalyzer, env_r2, env_neon, w_path,
                   w_chitty, r2_objects, neon_evidence, mint_requests, mint_obtained,
                   timeline_latest>>

\* upsert_evidence, lines 183-193: the upsert is logged, then the metadata
\* dictionary reads file_path, archived_path and file_hash, names the function
\* does not have: NameError.  The call never returns normally.
upsert_evidence(w) ==
    /\ script = "evidence_analyzer_chittyos"
    /\ w_pc[w] = "artifact"
    /\ neon_evidence' = neon_evidence \cup {w_chitty[w]}
    /\ w_pc' = [w_pc EXCEPT ![w] = "raised"]
    /\ UNCHANGED <<script, varsEnv, otherThanAnalyzer, env_r2, env_neon, w_path,
                   w_chitty, r2_objects, neon_artifacts, mint_requests, mint_obtained,
                   timeline_latest>>

\* the call is over (every path through it ends in an exception); the caller
\* goes on and may call again
archive_source_document_end(w) ==
    /\ script = "evidence_analyzer_chittyos"
    /\ w_pc[w] = "raised"
    /\ w_pc' = [w_pc EXCEPT ![w] = "idle"]
    /\ UNCHANGED <<script, varsEnv, otherThanAnalyzer, env_r2, env_neon, w_path,
                   w_chitty, r2_objects, neon_artifacts, neon_evidence, mint_requests,
                   mint_obtained, timeline_latest>>

\* generate_timeline, lines 228-246: every row of the parent's timeline gets
\* chitty_id = f"PENDING_CHITTYID_{row.name}_{self.case_id}"
generate_timeline(n) ==
    /\ script = "evidence_analyzer_chittyos"
    /\ timeline_latest' = [i \in 1..n |-> PendingChittyId(i - 1)]
    /\ UNCHANGED <<script, varsEnv, otherThanAnalyzer, env_r2, env_neon, w_pc, w_path,
                   w_chitty, r2_objects, neon_artifacts, neon_evidence, mint_requests,
                   mint_obtained>>

----------------------------------------------------------------------------
(* The batch loops: ChittyOSEvidenceAnalyzer.run_analysis (lines 298-312),     *)
(* FlowOfFundsProcessor.process_evidence_batch (lines 56-94) and               *)
(* EvidenceChainWorkflow._mint_all_evidence (lines 150-169).  The body of an   *)
(* iteration is a call into another component; here it returns or raises.      *)

MaxItems == 11        \* items handed to a loop

\* for path in evidence_paths[:10]
PreviewLimit == 10

LoopFns == {"run_analysis", "process_evidence_batch", "mint_all_evidence"}

\* the number of items the for statement iterates over
LoopRange(fn, n) ==
    IF fn = "process_evidence_batch" THEN Min(n, PreviewLimit) ELSE n

\* (mutant) _mint_all_evidence lets the exception of an item escape
CatchesItemException_escapes(fn) == fn # "mint_all_evidence"

\* the try statement around the body has an `except Exception` clause that
\* logs (or records) the error and lets the for statement go on
CatchesItemException(fn) == TRUE

\* the statements of the body that may raise after the counter was incremented:
\* enhance_evidence_metadata after results["processed"] += 1, update_chain_status
\* after minted_count += 1; archived_count += 1 is the last statement of its body
HasLateCall(fn) == fn # "run_analysis"

LoopIterates ==
    /\ loop_pc = "loop"
    /\ loop_pos <= LoopRange(loop_fn, loop_n)

\* the item is passed over without entering the try body's call:
\* 'out/' in the path, a path that does not exist, metadata without
\* file_hash or chitty_id
LoopSkip ==
    /\ loop_attempted' = loop_attempted \cup {loop_pos}
    /\ loop_pos' = loop_pos + 1
    /\ UNCHANGED <<loop_fn, loop_n, loop_pc, loop_count, loop_errors, loop_first_failed>>

LoopReturned ==
    /\ loop_attempted' = loop_attempted \cup {loop_pos}
    /\ loop_pos' = loop_pos + 1
    /\ loop_count' = loop_count + 1
    /\ UNCHANGED <<loop_fn, loop_n, loop_pc, loop_errors, loop_first_failed>>

LoopRaised(late) ==
    /\ loop_attempted' = loop_attempted \cup {loop_pos}
    /\ loop_count' = IF late THEN loop_count + 1 ELSE loop_count
    /\ loop_first_failed' = IF loop_first_failed = 0 THEN loop_pos ELSE loop_first_failed
    /\ IF CatchesItemException(loop_fn)
       THEN /\ loop_errors' = loop_errors + 1
            /\ loop_pos' = loop_pos + 1
            /\ UNCHANGED loop_pc
       ELSE /\ loop_pc' = "aborted"
            /\ UNCHANGED <<loop_errors, loop_pos>>
    /\ UNCHANGED <<loop_fn, loop_n>>

LoopBody(outcome) ==
    CASE outcome = "skip" -> LoopSkip
      [] outcome = "returned" -> LoopReturned
      [] outcome = "raised" -> LoopRaised(FALSE)
      [] outcome = "raised_late" -> HasLateCall(loop_fn) /\ LoopRaised(TRUE)

Outcomes == {"skip", "returned", "raised", "raised_late"}

run_analysis_item(outcome) ==
    /\ script = "batch"
    /\ loop_fn = "run_analysis"
    /\ LoopIterates
    /\ LoopBody(outcome)
    /\ UNCHANGED <<script, otherThanBatch>>

process_evidence_batch_item(outcome) ==
    /\ script = "batch"
    /\ loop_fn = "process_evidence_batch"
    /\ LoopIterates
    /\ LoopBody(outcome)
    /\ UNCHANGED <<script, otherThanBatch>>

mint_all_evidence_item(outcome) ==
    /\ script = "batch"
    /\ loop_fn = "mint_all_evidence"
    /\ LoopIterates
    /\ LoopBody(outcome)
    /\ UNCHANGED <<script, otherThanBatch>>

\* the for statement is exhausted and the function goes on to its return
batch_loop_exit ==
    /\ script = "batch"
    /\ loop_pc = "loop"
    /\ loop_pos > LoopRange(loop_fn, loop_n)
    /\ loop_pc' = "done"
    /\ UNCHANGED <<loop_fn, loop_n, loop_pos, loop_attempted, loop_count, loop_errors,
                   loop_first_failed>>
    /\ UNCHANGED <<script, otherThanBatch>>

----------------------------------------------------------------------------
(* chain_status_workflow.py: EvidenceChainWorkflow.process_evidence_pipeline *)

\* "chittyos_storage", "ai_processing", "chittyledger_minting", "chain_verification"
Stages == 1..4
MaxCount == 2         \* the count a stage records (files, metadata, minted, verified)

\* (mutant) success is recorded once the minting stage is completed
LastStage_minting == Cardinality(Stages) - 1

\* chain_verification, lines 91-98, the stage after which lines 100-101 run
LastStage == 4

\* lines 50-60: the record is created, every stage "pending"
process_evidence_pipeline_start ==
    /\ script = "chain_status_workflow"
    /\ pl_pc = <<"idle", 0>>
    /\ pl_stages' = [s \in Stages |-> "pending"]
    /\ pl_counts' = [s \in Stages |-> 0]
    /\ pl_end' = FALSE
    /\ pl_success' = "unset"
    /\ pl_errors' = 0
    /\ pl_saved' = FALSE
    /\ pl_pc' = <<"begin", 1>>
    /\ UNCHANGED <<script, otherThanPipeline>>

\* a stage is marked "in_progress" and its call is awaited
process_evidence_pipeline_stage_begin ==
    /\ script = "chain_status_workflow"
    /\ pl_pc[1] = "begin"
    /\ pl_stages' = [pl_stages EXCEPT ![pl_pc[2]] = "in_progress"]
    /\ pl_pc' = <<"running", pl_pc[2]>>
    /\ UNCHANGED <<pl_counts, pl_end, pl_success, pl_errors, pl_saved>>
    /\ UNCHANGED <<script, otherThanPipeline>>

\* the stage's call returned: "completed" and its count; after the last stage
\* lines 100-101 set pipeline_end and success = True
process_evidence_pipeline_stage_completed(count) ==
    /\ script = "chain_status_workflow"
    /\ pl_pc[1] = "running"
    /\ pl_stages' = [pl_stages EXCEPT ![pl_pc[2]] = "completed"]
    /\ pl_counts' = [pl_counts EXCEPT ![pl_pc[2]] = count]
    /\ IF pl_pc[2] = LastStage
       THEN /\ pl_end' = TRUE
            /\ pl_success' = "True"
            /\ pl_pc' = <<"save", 0>>
       ELSE /\ pl_pc' = <<"begin", pl_pc[2] + 1>>
            /\ UNCHANGED <<pl_end, pl_success>>
    /\ UNCHANGED <<pl_errors, pl_saved>>
    /\ UNCHANGED <<script, otherThanPipeline>>

\* the stage's call raised: the except clause, lines 109-112, appends the error
\* and sets success = False; it does not set pipeline_end
process_evidence_pipeline_stage_raised ==
    /\ script = "chain_status_workflow"
    /\ pl_pc[1] = "running"
    /\ pl_errors' = pl_errors + 1
    /\ pl_success' = "False"
    /\ pl_pc' = <<"save", 0>>
    /\ UNCHANGED <<pl_stages, pl_counts, pl_end, pl_saved>>
    /\ UNCHANGED <<script, otherThanPipeline>>

\* lines 115-120: pipeline_results.json is written and the record returned
process_evidence_pipeline_save ==
    /\ script = "chain_status_workflow"
    /\ pl_pc[1] = "save"
    /\ pl_saved' = TRUE
    /\ pl_pc' = <<"returned", 0>>
    /\ UNCHANGED <<pl_stages, pl_counts, pl_end, pl_success, pl_errors>>
    /\ UNCHANGED <<script, otherThanPipeline>>

----------------------------------------------------------------------------
(* chittylegder_integration.py: ChittyLedgerBridge *)

MaxFlat == 2          \* files in flat_output
MaxPages == 3         \* pages the ledger database accepts in one behaviour

\* a file hash: its first 16 characters and the rest
HashTokens == {<<"aaaa", "1">>, <<"aaaa", "2">>, <<"bbbb", "1">>}
\* file_hash[:16]
Prefix16(h) == h[1]
Prefixes == {Prefix16(h) : h \in HashTokens}

\* a file of flat_output, named f"{hash}_{rest}"
FlatFiles == HashTokens \X {"x.pdf", "y.pdf"}
\* file_path.name.split('_')[0]
NameHash(file) == file[1]

FlatOutputs == {S \in SUBSET FlatFiles : Cardinality(S) <= MaxFlat}

\* the metadata file f"{file_hash[:16]}.json": absent, without a chitty_id, or
\* with the chitty_id the file was archived under
MetadataKinds == {"missing", "no_chitty_id", "ok"}
MetaChittyId(prefix) == <<"chitty_id", prefix>>

\* process_ai_metadata(file_hash) and the two tests on its result, lines 251-255:
\* whether sync_pending_evidence goes on to mint
HasChittyId(h) == metadata[Prefix16(h)] = "ok"

\* (mutant) the test compares the wrong field of the mapping
already_synced_wrong_field(h, existing) == \E m \in existing : m.chitty_id = h

\* already_synced, lines 244-247
already_synced(h, existing) == \E m \in existing : m.file_hash = h

\* lines 227-236: list flat_output, load evidence_mappings.json once
sync_pending_evidence_start ==
    /\ script = "chittylegder_integration"
    /\ sync_pc = "idle"
    /\ sync_remaining' = flat_output
    /\ sync_existing' = mappings
    /\ sync_count' = 0
    /\ sync_prev_clean' = (sync_result = "returned")
    /\ sync_result' = "running"
    /\ sync_pc' = "loop"
    /\ mint_caller' = "sync_pending_evidence"
    /\ UNCHANGED <<flat_output, metadata, ledger, mappings, sync_cur, sync_page,
                   sync_killed>>
    /\ UNCHANGED <<script, otherThanLedger>>

\* one iteration up to the call of mint_evidence, lines 238-256; glob yields
\* the files in an order the file system decides
sync_pending_evidence_file(f) ==
    /\ script = "chittylegder_integration"
    /\ sync_pc = "loop"
    /\ f \in sync_remaining
    /\ sync_remaining' = sync_remaining \ {f}
    /\ IF ~already_synced(NameHash(f), sync_existing) /\ HasChittyId(NameHash(f))
       THEN /\ sync_cur' = f
            /\ sync_pc' = "create"
       ELSE UNCHANGED <<sync_cur, sync_pc>>
    /\ UNCHANGED <<flat_output, metadata, ledger, mappings, sync_existing, sync_page,
                   sync_count, sync_result, sync_prev_clean, sync_killed>>
    /\ UNCHANGED <<script, otherThanLedger, mint_caller>>

Page(id, h, chitty) == [id |-> id, file_hash |-> h, chitty_id |-> chitty]
PagesOf(h) == {i \in 1..Len(ledger) : ledger[i].file_hash = h}
MappingsOf(h) == {m \in mappings : m.file_hash = h}

\* mint_evidence, lines 87-93: notion.pages.create returns the new page
mint_evidence_create ==
    /\ script = "chittylegder_integration"
    /\ sync_pc = "create"
    /\ Len(ledger) < MaxPages
    /\ ledger' = Append(ledger, Page(Len(ledger) + 1, NameHash(sync_cur),
                                     MetaChittyId(Prefix16(NameHash(sync_cur)))))
    /\ sync_page' = Len(ledger) + 1
    /\ sync_pc' = "store"
    /\ UNCHANGED <<flat_output, metadata, mappings, sync_remaining, sync_existing,
                   sync_cur, sync_count, sync_result, sync_prev_clean, sync_killed>>
    /\ UNCHANGED <<script, otherThanLedger, mint_caller>>

\* mint_evidence, lines 101-103: notion.pages.create raised; the error is logged
\* and raised again, and sync_pending_evidence has no handler for it
mint_evidence_raise ==
    /\ script = "chittylegder_integration"
    /\ sync_pc = "create"
    /\ sync_pc' = "idle"
    /\ sync_result' = IF mint_caller = "sync_pending_evidence"
                      THEN "raised" ELSE sync_result
    /\ UNCHANGED <<flat_output, metadata, ledger, mappings, sync_remaining,
                   sync_existing, sync_cur, sync_page, sync_count, sync_prev_clean,
                   sync_killed>>
    /\ UNCHANGED <<script, otherThanLedger, mint_caller>>

\* _store_mapping, lines 202-217: read the file, set mappings[evidence_id], write
\* it back; then synced_count += 1
StoreMapping(evidence_id, chitty, h) ==
    {m \in mappings : m.evidence_id # evidence_id}
        \cup {[evidence_id |-> evidence_id, chitty_id |-> chitty, file_hash |-> h]}

mint_evidence_store_mapping ==
    /\ script = "chittylegder_integration"
    /\ sync_pc = "store"
    /\ mappings' = StoreMapping(sync_page, MetaChittyId(Prefix16(NameHash(sync_cur))),
                                NameHash(sync_cur))
    /\ IF mint_caller = "sync_pending_evidence"
       THEN /\ sync_count' = sync_count + 1
            /\ sync_pc' = "loop"
       ELSE /\ sync_pc' = "idle"
            /\ UNCHANGED sync_count
    /\ UNCHANGED <<flat_output, metadata, ledger, sync_remaining, sync_existing,
                   sync_cur, sync_page, sync_result, sync_prev_clean, sync_killed>>
    /\ UNCHANGED <<script, otherThanLedger, mint_caller>>

\* _mint_all_evidence, chain_status_workflow.py lines 150-167, for one metadata
\* record of _enhance_all_metadata: mint_evidence is called whenever the record
\* has a file_hash and a chitty_id, on every pipeline run
mint_all_evidence_mint(f) ==
    /\ script = "chittylegder_integration"
    /\ sync_pc = "idle"
    /\ f \in flat_output
    /\ HasChittyId(NameHash(f))
    /\ sync_cur' = f
    /\ sync_pc' = "create"
    /\ mint_caller' = "_mint_all_evidence"
    /\ UNCHANGED <<flat_output, metadata, ledger, mappings, sync_remaining,
                   sync_existing, sync_page, sync_count, sync_result,
                   sync_prev_clean, sync_killed>>
    /\ UNCHANGED <<script, otherThanLedger>>

\* return synced_count
sync_pending_evidence_return ==
    /\ script = "chittylegder_integration"
    /\ sync_pc = "loop"
    /\ sync_remaining = {}
    /\ sync_pc' = "idle"
    /\ sync_result' = "returned"
    /\ UNCHANGED <<flat_output, metadata, ledger, mappings, sync_remaining,
                   sync_existing, sync_cur, sync_page, sync_count, sync_prev_clean,
                   sync_killed>>
    /\ UNCHANGED <<script, otherThanLedger, mint_caller>>

\* the process is killed during a run: its local state is lost, the ledger and
\* evidence_mappings.json stay as they are
process_killed ==
    /\ script = "chittylegder_integration"
    /\ sync_pc # "idle"
    /\ sync_killed' = IF sync_pc = "store"
                      THEN sync_killed \cup {NameHash(sync_cur)} ELSE sync_killed
    /\ sync_pc' = "idle"
    /\ sync_result' = "killed"
    /\ UNCHANGED <<flat_output, metadata, ledger, mappings, sync_remaining,
                   sync_existing, sync_cur, sync_page, sync_count, sync_prev_clean>>
    /\ UNCHANGED <<script, otherThanLedger, mint_caller>>

----------------------------------------------------------------------------
(* process_flow_of_funds.py: generate_early_preview *)

MaxRuns == 2          \* runs of generate_early_preview in one behaviour

\* files of the Flow_of_Funds_Package that a priority pattern matches
PackageFiles == {"a.csv", "b.csv", "c.csv"}

\* evidence_files = evidence_files[:20]
PreviewFiles == 20

\* the orders in which rglob may yield the files of S: the order of the
\* directory entries, which the code takes as it comes
Enumerations(S) ==
    {q \in [1..Cardinality(S) -> S] : \A i, j \in 1..Cardinality(S) : q[i] = q[j] => i = j}

AllEnumerations == UNION {Enumerations(S) : S \in SUBSET PackageFiles}

\* q[:n]
Take(q, n) == SubSeq(q, 1, Min(n, Len(q)))

NoStatistics == [files_processed |-> 0, files_enhanced |-> 0, files_minted |-> 0,
                 errors |-> 0]

\* generate_early_preview, lines 101-121: collect the files, cut the list to 20,
\* hand it to process_evidence_batch
generate_early_preview_collect(order) ==
    /\ script = "process_flow_of_funds"
    /\ pv_pc = "idle"
    /\ pv_runs < MaxRuns
    /\ order \in Enumerations(pv_files)
    /\ pv_list' = Take(order, PreviewFiles)
    /\ pv_pos' = 1
    /\ pv_prev_attempted' = pv_attempted
    /\ pv_prev_stats' = pv_stats
    /\ pv_attempted' = <<>>
    /\ pv_stats' = NoStatistics
    /\ pv_pc' = "batch"
    /\ UNCHANGED <<pv_files, pv_runs>>
    /\ UNCHANGED <<script, varsEnv, otherThanPreview>>

\* process_evidence_batch, lines 56-92, for one of the first ten paths:
\* archive_source_document raises (it never returns, see upsert_evidence), the
\* except clause appends to results["errors"]
process_evidence_batch_path ==
    /\ script = "process_flow_of_funds"
    /\ pv_pc = "batch"
    /\ pv_pos <= LoopRange("process_evidence_batch", Len(pv_list))
    /\ pv_attempted' = Append(pv_attempted, pv_list[pv_pos])
    /\ pv_stats' = [pv_stats EXCEPT !.errors = @ + 1]
    /\ pv_pos' = pv_pos + 1
    /\ UNCHANGED <<pv_files, pv_pc, pv_list, pv_prev_attempted, pv_prev_stats, pv_runs>>
    /\ UNCHANGED <<script, varsEnv, otherThanPreview>>

\* generate_early_preview, lines 123-149: the report with the statistics is
\* written and returned
generate_early_preview_report ==
    /\ script = "process_flow_of_funds"
    /\ pv_pc = "batch"
    /\ pv_pos > LoopRange("process_evidence_batch", Len(pv_list))
    /\ pv_pc' = "idle"
    /\ pv_runs' = pv_runs + 1
    /\ UNCHANGED <<pv_files, pv_list, pv_pos, pv_attempted, pv_stats,
                   pv_prev_attempted, pv_prev_stats>>
    /\ UNCHANGED <<script, varsEnv, otherThanPreview>>

----------------------------------------------------------------------------
(* rclone_to_notion_sync.py: get_all_files_from_rclone *)

MaxListing == 3       \* files in the listing of the remote

\* the remote: two directories, two file names, three contents
RcDirs == {"", "copy/"}
RcNames == {"x.pdf", "y.pdf"}
RcContents == {"X", "Y", "ZZ"}
\* len() of a directory prefix, of a name, and of a content in bytes
DirLen(d) == IF d = "" THEN 0 ELSE 5
NameLen(n) == 5
ByteLen(c) == IF c = "ZZ" THEN 2 ELSE 1

\* an entry of `rclone lsjson`: Path, Name and Size; Content is what the remote
\* holds under that path, which the listing does not show
RcEntries == [Dir : RcDirs, Name : RcNames, Content : RcContents]
RcPath(file) == <<file.Dir, file.Name>>
RcSize(file) == ByteLen(file.Content)
\* (mutant) the directory part of the path is not counted
PathLen_of_name_only(file) == NameLen(file.Name)

PathLen(file) == DirLen(file.Dir) + NameLen(file.Name)

\* a listing names every path once
Listings ==
    {q \in SeqsUpTo(RcEntries, MaxListing) :
        \A i, j \in 1..Len(q) : RcPath(q[i]) = RcPath(q[j]) => i = j}

\* key = f"{file_name}_{file_size}"
RcKey(file) == <<file.Name, RcSize(file)>>

\* lines 83-86: the first entry of deduplicated equal to old_file becomes file
ReplaceFirst(q, old_file, file) ==
    LET hits == {i \in 1..Len(q) : q[i] = old_file}
    IN  IF hits = {} THEN q
        ELSE LET first == CHOOSE i \in hits : \A j \in hits : i <= j
             IN  [q EXCEPT ![first] = file]

\* one iteration of the deduplication loop, lines 64-86
get_all_files_from_rclone_file ==
    /\ script = "rclone_to_notion_sync"
    /\ rc_pc = "dedup"
    /\ rc_idx <= Len(rc_files)
    /\ LET file == rc_files[rc_idx]
           key == RcKey(file)
       IN  IF key \notin DOMAIN rc_seen
           THEN /\ rc_seen' = [k \in DOMAIN rc_seen \cup {key} |->
                                  IF k = key THEN file ELSE rc_seen[k]]
                /\ rc_dedup' = Append(rc_dedup, file)
           ELSE IF PathLen(file) < PathLen(rc_seen[key])
                THEN /\ rc_seen' = [rc_seen EXCEPT ![key] = file]
                     /\ rc_dedup' = ReplaceFirst(rc_dedup, rc_seen[key], file)
                ELSE UNCHANGED <<rc_seen, rc_dedup>>
    /\ rc_idx' = rc_idx + 1
    /\ UNCHANGED <<rc_files, rc_pc>>
    /\ UNCHANGED <<script, varsEnv, otherThanRclone>>

\* lines 88-93: return deduplicated
get_all_files_from_rclone_return ==
    /\ script = "rclone_to_notion_sync"
    /\ rc_pc = "dedup"
    /\ rc_idx > Len(rc_files)
    /\ rc_pc' = "returned"
    /\ UNCHANGED <<rc_files, rc_idx, rc_seen, rc_dedup>>
    /\ UNCHANGED <<script, varsEnv, otherThanRclone>>

----------------------------------------------------------------------------
(* evidence_cli.py: ChittyOSEvidenceCLI *)

MaxMetadata == 2      \* files in the METADATA directory
MaxStamp == 2         \* distinct values of processed_at

CasePaths == {"case/a.pdf", "case/b.pdf"}

\* how a metadata file reads: "ok"; "bad_json" (json.load raises
\* JSONDecodeError); "io_error" (open or read raises IOError); "bad_utf8" (the
\* text decoder raises UnicodeDecodeError, which is neither)
ReadKinds == {"ok", "bad_json", "io_error", "bad_utf8"}

\* a metadata file: the record stored in it and how the file reads now
MetadataFiles == [file_path : CasePaths, processed_at : 1..MaxStamp, reads : ReadKinds]
MetadataDirs == {S \in SUBSET MetadataFiles : Cardinality(S) <= MaxMetadata}

\* except (json.JSONDecodeError, IOError): the warning is printed, the file left out
CaughtByListEvidence(m) == m.reads \in {"bad_json", "io_error"}

\* sorted(evidence_list, key=processed_at): a stable insertion into sorted q
RECURSIVE InsertSorted(_, _)
InsertSorted(q, m) ==
    IF q = <<>> THEN <<m>>
    ELSE IF Head(q).processed_at <= m.processed_at
         THEN <<Head(q)>> \o InsertSorted(Tail(q), m)
         ELSE <<m>> \o q

RECURSIVE SortedByProcessedAt(_)
SortedByProcessedAt(q) ==
    IF q = <<>> THEN <<>>
    ELSE InsertSorted(SortedByProcessedAt(SubSeq(q, 1, Len(q) - 1)), q[Len(q)])

IsOk(m) == m.reads = "ok"

\* list_evidence without a case filter, lines 109-125, over the glob order
\* `order`: the records of the files that could be read, sorted
ListEvidence(order) == SortedByProcessedAt(SelectSeq(order, IsOk))

\* an exception list_evidence does not catch leaves it
ListEvidenceRaises == \E m \in cli_metadata : ~IsOk(m) /\ ~CaughtByListEvidence(m)

list_evidence(order) ==
    /\ script = "evidence_cli"
    /\ order \in Enumerations(cli_metadata)
    /\ cli_op' = "list_evidence"
    /\ IF ListEvidenceRaises
       THEN /\ cli_result' = "raised"
            /\ UNCHANGED cli_listing
       ELSE /\ cli_result' = "returned"
            /\ cli_listing' = ListEvidence(order)
    /\ UNCHANGED <<cli_metadata, cli_case, cli_new>>
    /\ UNCHANGED <<script, varsEnv, otherThanCli>>

\* scan, lines 189-207: the files of the case directory whose path no listed
\* record has
scan(files, order) ==
    /\ script = "evidence_cli"
    /\ files \in Enumerations(cli_case)
    /\ order \in Enumerations(cli_metadata)
    /\ cli_op' = "scan"
    /\ IF ListEvidenceRaises
       THEN /\ cli_result' = "raised"
            /\ UNCHANGED <<cli_listing, cli_new>>
       ELSE /\ cli_result' = "returned"
            /\ cli_listing' = ListEvidence(order)
            /\ LET existing_metadata ==
                       {ListEvidence(order)[i].file_path : i \in 1..Len(ListEvidence(order))}
                   IsNew(f) == f \notin existing_metadata
               IN  cli_new' = SelectSeq(files, IsNew)
    /\ UNCHANGED <<cli_metadata, cli_case>>
    /\ UNCHANGED <<script, varsEnv, otherThanCli>>

----------------------------------------------------------------------------
(* chain_status_workflow.py: update_evidence_status *)

MaxEvents == 3        \* lines of chain_events.jsonl

ChainStatus == {"Pending", "Minted", "Verified", "Rejected", "Disputed"}

\* the table _validate_status_transition defines, lines 204-210
allowed_transitions ==
    [s \in ChainStatus |->
        CASE s = "Pending" -> {"Minted", "Rejected"}
          [] s = "Minted" -> {"Verified", "Disputed"}
          [] s = "Verified" -> {"Disputed"}
          [] s = "Rejected" -> {"Pending"}
          [] s = "Disputed" -> {"Verified", "Rejected"}]

\* _validate_status_transition, lines 200-214: the table is built, the current
\* status is not fetched, and the function returns True
validate_status_transition(current, new_status) == TRUE

\* update_evidence_status, lines 171-198.  `updated` is whether
\* notion.pages.update went through; when it raises, the except clause returns
\* False before the event is logged.
update_evidence_status(new_status, updated) ==
    /\ script = "update_evidence_status"
    /\ Len(st_events) < MaxEvents
    /\ IF ~validate_status_transition(st_status, new_status)
       THEN /\ st_returned' = FALSE
            /\ UNCHANGED <<st_status, st_events>>
       ELSE IF ~updated
            THEN /\ st_returned' = FALSE
                 /\ UNCHANGED <<st_status, st_events>>
            ELSE /\ st_status' = new_status
                 /\ st_events' = Append(st_events, new_status)
                 /\ st_returned' = TRUE
    /\ UNCHANGED <<script, varsEnv, otherThanStatus>>

----------------------------------------------------------------------------
(* chittyos_service_client.py: ChittyOSServiceClient.ingest_evidence *)

MaxPlaces == 2        \* places handed to ingest_evidence
MaxStored == 2        \* records the schema service stores in one behaviour

\* the service methods in the order ingest_evidence calls them, lines 308-356
IngestOrder == <<"canonicalize_entities", "mint_chitty_id", "validate_evidence_schema",
                 "verify_evidence_trust", "validate_compliance", "store_evidence_record">>

\* what a service method does: "ok" (it returns, and returns True where it
\* returns a bool), "false" (validate_evidence_schema or store_evidence_record
\* returns False), "raised" (resolve_service or the method raises RuntimeError)
StepResults == {"ok", "false", "raised"}
ReturnsBool(step) == step \in {"validate_evidence_schema", "store_evidence_record"}

\* (mutant) the result of validate_evidence_schema is not tested
Proceeds_unchecked_validation(step, result) ==
    result = "ok" \/ (step = "validate_evidence_schema" /\ result = "false")

\* ingest_evidence goes on to the next line: the call returned, and
\* `if not await ...: raise RuntimeError` (lines 337-338, 353-354) did not raise
Proceeds(step, result) == result = "ok"

StepAfter(step) ==
    LET i == CHOOSE k \in 1..Len(IngestOrder) : IngestOrder[k] = step
    IN  IF i = Len(IngestOrder) THEN "returned" ELSE IngestOrder[i + 1]

\* ingest_evidence is entered, lines 289-306
ingest_evidence_begin(places) ==
    /\ script = "chittyos_service_client"
    /\ ing_pc \in {"idle", "returned", "raised"}
    /\ ing_places' = places
    /\ ing_canonical' = 0
    /\ ing_calls' = <<>>
    /\ ing_failed' = "none"
    /\ ing_pc' = IngestOrder[1]
    /\ UNCHANGED ing_stored
    /\ UNCHANGED <<script, varsEnv, otherThanIngest>>

\* one service method is called and ingest_evidence acts on its result: on to
\* the next step, or out through `except Exception: ... raise` (lines 367-369)
IngestStep(step, result) ==
    /\ script = "chittyos_service_client"
    /\ ing_pc = step
    /\ result \in StepResults
    /\ result = "false" => ReturnsBool(step)
    /\ ing_calls' = Append(ing_calls, step)
    /\ ing_failed' = IF result = "ok" THEN ing_failed ELSE step
    /\ ing_pc' = IF Proceeds(step, result) THEN StepAfter(step) ELSE "raised"
    /\ UNCHANGED ing_places
    /\ UNCHANGED <<script, varsEnv, otherThanIngest>>

\* canonicalize_entities, lines 117-167: a place whose response is not ok is
\* left out of the result, and the method returns all the same; `accepted`
\* places came back ok
canonicalize_entities(result, accepted) ==
    /\ IngestStep("canonicalize_entities", result)
    /\ accepted \in 0..ing_places
    /\ ing_canonical' = IF result = "ok" THEN accepted ELSE ing_canonical
    /\ UNCHANGED ing_stored

mint_chitty_id(result) ==
    /\ IngestStep("mint_chitty_id", result)
    /\ UNCHANGED <<ing_canonical, ing_stored>>

validate_evidence_schema(result) ==
    /\ IngestStep("validate_evidence_schema", result)
    /\ UNCHANGED <<ing_canonical, ing_stored>>

verify_evidence_trust(result) ==
    /\ IngestStep("verify_evidence_trust", result)
    /\ UNCHANGED <<ing_canonical, ing_stored>>

validate_compliance(result) ==
    /\ IngestStep("validate_compliance", result)
    /\ UNCHANGED <<ing_canonical, ing_stored>>

\* store_evidence_record, lines 265-287: response.ok of the POST to
\* /api/v1/store/evidence
store_evidence_record(result) ==
    /\ IngestStep("store_evidence_record", result)
    /\ result = "ok" => ing_stored < MaxStored
    /\ ing_stored' = IF result = "ok" THEN ing_stored + 1 ELSE ing_stored
    /\ UNCHANGED ing_canonical

----------------------------------------------------------------------------
(* chittyos_service_client.py: ChittyOSServiceClient.resolve_service *)

MaxLookups == 3       \* GET requests the registry receives in one behaviour

ServiceNames == {"foundation-id", "chittyschema", "other-service"}
\* base_url values the registry may answer with
RegistryUrls == {"https://a.example", "https://b.example"}

\* fallback_urls, lines 56-63
fallback_urls ==
    [n \in {"foundation-id", "chittyschema"} |->
        IF n = "foundation-id" THEN "https://id.chitty.cc" ELSE "https://schema.chitty.cc"]

NoCall == [name |-> "", result |-> "", asked |-> FALSE]

\* (mutant) the cache is never consulted
InServiceCache_ignored(service_name) == FALSE

\* `if service_name in self._service_cache`, line 51
InServiceCache(service_name) == service_name \in DOMAIN sc_cache

\* resolve_service, lines 41-80.  `response` is what the registry would answer:
\* "not_ok", or a base_url.
resolve_service(service_name, response) ==
    /\ script = "resolve_service"
    /\ IF InServiceCache(service_name)
       THEN /\ sc_last' = [name |-> service_name, result |-> sc_cache[service_name],
                           asked |-> FALSE]
            /\ UNCHANGED <<sc_cache, sc_requests>>
       ELSE IF ~sc_token /\ service_name \in DOMAIN fallback_urls
            THEN /\ sc_last' = [name |-> service_name,
                                result |-> fallback_urls[service_name], asked |-> FALSE]
                 /\ UNCHANGED <<sc_cache, sc_requests>>
            ELSE /\ sc_requests < MaxLookups
                 /\ sc_requests' = sc_requests + 1
                 /\ IF response = "not_ok"
                    THEN /\ sc_last' = [name |-> service_name, result |-> "raised",
                                        asked |-> TRUE]
                         /\ UNCHANGED sc_cache
                    ELSE /\ sc_cache' = [n \in DOMAIN sc_cache \cup {service_name} |->
                                           IF n = service_name THEN response
                                           ELSE sc_cache[n]]
                         /\ sc_last' = [name |-> service_name, result |-> response,
                                        asked |-> TRUE]
    /\ UNCHANGED sc_token
    /\ UNCHANGED <<script, varsEnv, otherThanRegistry>>

----------------------------------------------------------------------------
(* evidence_cli.py: generate_file_hash; dedupe_and_organize.py: calculate_file_hash *)

MaxBytes == 4         \* longest file content
ChunkSize == 2        \* bytes per f.read(4096), scaled down with MaxBytes

HashPaths == {"in/a.pdf", "out/b.txt"}
HashFns == {"generate_file_hash", "calculate_file_hash"}

RECURSIVE ByteSeqs(_)
ByteSeqs(n) ==
    IF n = 0 THEN {<<>>}
    ELSE LET shorter == ByteSeqs(n - 1)
         IN shorter \cup {Append(c, b) : c \in {x \in shorter : Len(x) = n - 1}, b \in {0, 1}}

FileContents == ByteSeqs(MaxBytes)

\* hashlib.sha256(): the state of a fresh hash object
sha256_new == 0

\* hasher.update(chunk): the bytes are absorbed one after the other (a
\* streaming fold that stands for SHA-256's compression)
RECURSIVE sha256_update(_, _)
sha256_update(state, chunk) ==
    IF chunk = <<>> THEN state
    ELSE sha256_update((state * 3 + Head(chunk) + 1) % 65536, Tail(chunk))

\* hashlib.sha256(content).hexdigest(): the whole content hashed at once
sha256_whole(content) == sha256_update(sha256_new, content)

\* (mutant) only the first chunk is ever read
ReadChunk_first_only(content, pos) ==
    IF pos > 1 THEN <<>> ELSE SubSeq(content, pos, Min(Len(content), pos + ChunkSize - 1))

\* f.read(4096) at position pos: the next chunk, b"" at end of file
ReadChunk(content, pos) ==
    SubSeq(content, pos, Min(Len(content), pos + ChunkSize - 1))

HashIdle == h_pos = 0

\* hashlib.sha256() and open(file_path, "rb").  An unreadable file raises:
\* generate_file_hash lets the exception out, calculate_file_hash logs it and
\* returns None.
hash_open(fn, file_path) ==
    /\ script = "file_hash"
    /\ HashIdle
    /\ h_fn' = fn
    /\ h_path' = file_path
    /\ IF file_path \in fs_readable
       THEN /\ h_pos' = 1
            /\ h_hasher' = sha256_new
            /\ UNCHANGED h_result
       ELSE /\ h_result' = [h_result EXCEPT ![file_path] = -2]
            /\ UNCHANGED <<h_pos, h_hasher>>
    /\ UNCHANGED <<fs_files, fs_readable>>
    /\ UNCHANGED <<script, varsEnv, otherThanHash>>

\* one turn of `for chunk in iter(lambda: f.read(4096), b"")`: update with the
\* chunk, or, on b"", leave the loop and return hexdigest()
hash_read_chunk ==
    /\ script = "file_hash"
    /\ ~HashIdle
    /\ LET chunk == ReadChunk(fs_files[h_path], h_pos)
       IN IF chunk = <<>>
          THEN /\ h_result' = [h_result EXCEPT ![h_path] = h_hasher]
               /\ h_pos' = 0
               /\ UNCHANGED h_hasher
          ELSE /\ h_hasher' = sha256_update(h_hasher, chunk)
               /\ h_pos' = h_pos + Len(chunk)
               /\ UNCHANGED h_result
    /\ UNCHANGED <<fs_files, fs_readable, h_fn, h_path>>
    /\ UNCHANGED <<script, varsEnv, otherThanHash>>

----------------------------------------------------------------------------
(* dedupe_and_organize.py: find_duplicates, remove_duplicates *)

MaxGiven == 3         \* longest path list of a caller-made duplicates argument

DdPaths == {"d/a", "d/b", "d/c"}
DdContents == {"X", "Y"}

Nothing == [kind |-> "none", content |-> "", target |-> ""]
RegularFile(c) == [kind |-> "file", content |-> c, target |-> ""]
SymLink(t) == [kind |-> "link", content |-> "", target |-> t]
DdEntries == {Nothing} \cup {RegularFile(c) : c \in DdContents}
                       \cup {SymLink(t) : t \in DdPaths}

\* what a path leads to when symbolic links are followed (open, stat, is_file)
RECURSIVE Resolve(_, _, _)
Resolve(tree, path, hops) ==
    IF hops = 0 THEN Nothing
    ELSE IF tree[path].kind = "link" THEN Resolve(tree, tree[path].target, hops - 1)
    ELSE tree[path]

Followed(tree, path) == Resolve(tree, path, Cardinality(DdPaths))

\* file_path.is_file(), line 36: true for a file and for a link to a file
is_file(tree, path) == Followed(tree, path).kind = "file"

\* calculate_file_hash(file_path): the digest of the bytes open() reads
calculate_file_hash(tree, path) == Followed(tree, path).content

\* the contents held by the regular files of the tree
ContentOnDisk(tree) == {tree[q].content : q \in {r \in DdPaths : tree[r].kind = "file"}}

\* the orders in which rglob('*') may yield the paths
DdOrders == {o \in [1..Cardinality(DdPaths) -> DdPaths] :
                \A i, j \in 1..Cardinality(DdPaths) : i # j => o[i] # o[j]}

GivenLists == SeqsUpTo(DdPaths, MaxGiven) \ {<<>>}

\* file_hashes[h], lines 35-43: the files of digest h, in the order found
PathsOfHash(tree, order, h) ==
    LET Has(q) == is_file(tree, q) /\ calculate_file_hash(tree, q) = h
    IN SelectSeq(order, Has)

\* where the first file of digest h stands in the order (dictionary order)
FirstSeen(tree, order, h) ==
    CHOOSE i \in 1..Len(order) :
        /\ order[i] = Head(PathsOfHash(tree, order, h))

\* line 46: the lists of more than one path, in dictionary order
Duplicates(tree, order) ==
    LET multi == {h \in DdContents : Len(PathsOfHash(tree, order, h)) > 1}
        Earlier(h, g) == FirstSeen(tree, order, h) <= FirstSeen(tree, order, g)
        first == CHOOSE h \in multi : \A g \in multi : Earlier(h, g)
    IN IF multi = {} THEN <<>>
       ELSE IF Cardinality(multi) = 1 THEN <<PathsOfHash(tree, order, first)>>
       ELSE <<PathsOfHash(tree, order, first),
              PathsOfHash(tree, order, CHOOSE g \in multi : g # first)>>

\* find_duplicates(directory), lines 28-51
find_duplicates(order) ==
    /\ script = "dedupe_and_organize"
    /\ dd_pc = "idle"
    /\ dd_duplicates' = Duplicates(dd_tree, order)
    /\ dd_pc' = "found"
    /\ UNCHANGED <<dd_tree, dd_before, dd_dry_run, dd_queue, dd_kept, dd_removed>>
    /\ UNCHANGED <<script, varsEnv, otherThanDedupe>>

\* a caller hands remove_duplicates a dictionary of its own making
duplicates_given(file_paths) ==
    /\ script = "dedupe_and_organize"
    /\ dd_pc = "idle"
    /\ dd_duplicates' = <<file_paths>>
    /\ dd_pc' = "found"
    /\ UNCHANGED <<dd_tree, dd_before, dd_dry_run, dd_queue, dd_kept, dd_removed>>
    /\ UNCHANGED <<script, varsEnv, otherThanDedupe>>

RECURSIVE RemoveFiles(_)
RemoveFiles(lists) ==
    IF lists = <<>> THEN <<>> ELSE Tail(Head(lists)) \o RemoveFiles(Tail(lists))

\* (mutant) unlink whatever dry_run says
Unlinks_always(dry_run) == TRUE

\* `if not dry_run`, line 70
Unlinks(dry_run) == ~dry_run

\* remove_duplicates(duplicates, dry_run), lines 55-61: for every list,
\* keep_file = file_paths[0] and remove_files = file_paths[1:]
remove_duplicates_begin(dry_run) ==
    /\ script = "dedupe_and_organize"
    /\ dd_pc \in {"found", "returned"}
    /\ dd_dry_run' = dry_run
    /\ dd_before' = dd_tree
    /\ dd_kept' = {Head(dd_duplicates[i]) : i \in 1..Len(dd_duplicates)}
    /\ dd_queue' = RemoveFiles(dd_duplicates)
    /\ dd_removed' = 0
    /\ dd_pc' = "removing"
    /\ UNCHANGED <<dd_tree, dd_duplicates>>
    /\ UNCHANGED <<script, varsEnv, otherThanDedupe>>

\* lines 65-79, one remove_file: stat() follows links and raises when nothing
\* is there (logged, not counted); unlink() removes the path itself
remove_duplicates_file ==
    /\ script = "dedupe_and_organize"
    /\ dd_pc = "removing"
    /\ dd_queue # <<>>
    /\ LET remove_file == Head(dd_queue)
       IN IF Followed(dd_tree, remove_file).kind # "none"
          THEN /\ dd_tree' = IF Unlinks(dd_dry_run)
                                THEN [dd_tree EXCEPT ![remove_file] = Nothing]
                                ELSE dd_tree
               /\ dd_removed' = dd_removed + 1
          ELSE UNCHANGED <<dd_tree, dd_removed>>
    /\ dd_queue' = Tail(dd_queue)
    /\ UNCHANGED <<dd_before, dd_duplicates, dd_dry_run, dd_pc, dd_kept>>
    /\ UNCHANGED <<script, varsEnv, otherThanDedupe>>

\* lines 81-84: return removed_count, saved_space
remove_duplicates_return ==
    /\ script = "dedupe_and_organize"
    /\ dd_pc = "removing"
    /\ dd_queue = <<>>
    /\ dd_pc' = "returned"
    /\ UNCHANGED <<dd_tree, dd_before, dd_duplicates, dd_dry_run, dd_queue, dd_kept,
                   dd_removed>>
    /\ UNCHANGED <<script, varsEnv, otherThanDedupe>>

----------------------------------------------------------------------------
(* chittylegder_integration.py: mint_evidence called by several processes *)
(* that share one metadata directory                                      *)

NProcs == 2           \* processes running mint_evidence
MaxEvidence == 3      \* ledger pages created in one behaviour

Procs == 1..NProcs

\* mappings[evidence_id] = {chitty_id, file_hash, created_at}, lines 209-213;
\* process p mints the file of hash <<"hash", p>>
MappingEntry(evidence_id, p) == [evidence_id |-> evidence_id, file_hash |-> <<"hash", p>>]

\* mint_evidence, lines 87-93: pages.create returns the new page's id
mint_evidence_pages_create(p) ==
    /\ script = "concurrent_mint_evidence"
    /\ cm_pc[p] = "idle"
    /\ cm_next <= MaxEvidence
    /\ cm_evidence' = [cm_evidence EXCEPT ![p] = cm_next]
    /\ cm_next' = cm_next + 1
    /\ cm_pc' = [cm_pc EXCEPT ![p] = "store"]
    /\ UNCHANGED <<cm_loaded, cm_state, cm_file, cm_written>>
    /\ UNCHANGED <<script, varsEnv, otherThanMapping>>

\* _store_mapping, lines 204-213: the file is loaded when it exists (json.load
\* raises on a file another process has just truncated, and mint_evidence
\* raises it again), and the entry is set in the dictionary in memory
store_mapping_load(p) ==
    /\ script = "concurrent_mint_evidence"
    /\ cm_pc[p] = "store"
    /\ IF cm_state = "empty"
       THEN /\ cm_pc' = [cm_pc EXCEPT ![p] = "idle"]
            /\ UNCHANGED cm_loaded
       ELSE /\ cm_loaded' = [cm_loaded EXCEPT ![p] =
                                {m \in cm_file : m.evidence_id # cm_evidence[p]}
                                   \cup {MappingEntry(cm_evidence[p], p)}]
            /\ cm_pc' = [cm_pc EXCEPT ![p] = "open"]
    /\ UNCHANGED <<cm_evidence, cm_state, cm_file, cm_next, cm_written>>
    /\ UNCHANGED <<script, varsEnv, otherThanMapping>>

\* line 216: open(mapping_file, 'w') truncates the file
store_mapping_open(p) ==
    /\ script = "concurrent_mint_evidence"
    /\ cm_pc[p] = "open"
    /\ cm_state' = "empty"
    /\ cm_file' = {}
    /\ cm_pc' = [cm_pc EXCEPT ![p] = "dump"]
    /\ UNCHANGED <<cm_evidence, cm_loaded, cm_next, cm_written>>
    /\ UNCHANGED <<script, varsEnv, otherThanMapping>>

\* line 217: json.dump(mappings, f) and the file is closed; the call returns
store_mapping_dump(p) ==
    /\ script = "concurrent_mint_evidence"
    /\ cm_pc[p] = "dump"
    /\ cm_state' = "json"
    /\ cm_file' = cm_loaded[p]
    /\ cm_written' = cm_written \cup {cm_evidence[p]}
    /\ cm_pc' = [cm_pc EXCEPT ![p] = "idle"]
    /\ UNCHANGED <<cm_evidence, cm_loaded, cm_next>>
    /\ UNCHANGED <<script, varsEnv, otherThanMapping>>

----------------------------------------------------------------------------
(* Specifications *)

CsvDefault ==
    /\ file_with_ids = NoFile
    /\ file_enhanced = NoFile
    /\ csv_pc = "idle"
    /\ csv_rows = <<>>
    /\ csv_idx = 1
    /\ csv_processed = 0
    /\ rq_requests = 0
    /\ rq_last = [outcome |-> "none", code |-> 0]
    /\ csv_exit = -1

NotionDefault ==
    /\ notion_pc = "idle"
    /\ notion_idx = 1
    /\ notion_entries = <<>>
    /\ notion_exit = -1

AnalyzerDefault ==
    /\ w_pc = [w \in Workers |-> "idle"]
    /\ w_path = [w \in Workers |-> NoPath]
    /\ w_chitty = [w \in Workers |-> NoId]
    /\ r2_objects = {}
    /\ neon_artifacts = {}
    /\ neon_evidence = {}
    /\ mint_requests = [h \in Hashes |-> 0]
    /\ mint_obtained = [h \in Hashes |-> {}]
    /\ timeline_latest = <<>>

BatchDefault ==
    /\ loop_fn = "run_analysis"
    /\ loop_n = 0
    /\ loop_pos = 1
    /\ loop_pc = "done"
    /\ loop_attempted = {}
    /\ loop_count = 0
    /\ loop_errors = 0
    /\ loop_first_failed = 0

PipelineDefault ==
    /\ pl_pc = <<"idle", 0>>
    /\ pl_stages = <<>>
    /\ pl_counts = <<>>
    /\ pl_end = FALSE
    /\ pl_success = "unset"
    /\ pl_errors = 0
    /\ pl_saved = FALSE

LedgerDefault ==
    /\ flat_output = {}
    /\ metadata = <<>>
    /\ ledger = <<>>
    /\ mappings = {}
    /\ sync_pc = "idle"
    /\ sync_remaining = {}
    /\ sync_existing = {}
    /\ sync_cur = <<>>
    /\ sync_page = 0
    /\ sync_count = 0
    /\ sync_result = "none"
    /\ sync_prev_clean = FALSE
    /\ sync_killed = {}
    /\ mint_caller = "none"

\* the variables of the scripts a behaviour does not run
PreviewDefault ==
    /\ pv_files = {}
    /\ pv_pc = "idle"
    /\ pv_list = <<>>
    /\ pv_pos = 1
    /\ pv_attempted = <<>>
    /\ pv_stats = NoStatistics
    /\ pv_prev_attempted = <<>>
    /\ pv_prev_stats = NoStatistics
    /\ pv_runs = 0

RcloneDefault ==
    /\ rc_files = <<>>
    /\ rc_pc = "idle"
    /\ rc_idx = 1
    /\ rc_seen = <<>>
    /\ rc_dedup = <<>>

CliDefault ==
    /\ cli_metadata = {}
    /\ cli_case = {}
    /\ cli_op = "none"
    /\ cli_result = "none"
    /\ cli_listing = <<>>
    /\ cli_new = <<>>

StatusDefault ==
    /\ st_status = "Pending"
    /\ st_events = <<>>
    /\ st_returned = FALSE

IngestDefault ==
    /\ ing_pc = "idle"
    /\ ing_places = 0
    /\ ing_canonical = 0
    /\ ing_calls = <<>>
    /\ ing_failed = "none"
    /\ ing_stored = 0

RegistryDefault ==
    /\ sc_token = FALSE
    /\ sc_cache = <<>>
    /\ sc_requests = 0
    /\ sc_last = NoCall

HashDefault ==
    /\ fs_files = [p \in HashPaths |-> <<>>]
    /\ fs_readable = HashPaths
    /\ h_fn = "generate_file_hash"
    /\ h_path = "in/a.pdf"
    /\ h_pos = 0
    /\ h_hasher = sha256_new
    /\ h_result = [p \in HashPaths |-> -1]

DedupeDefault ==
    /\ dd_tree = [q \in DdPaths |-> Nothing]
    /\ dd_before = [q \in DdPaths |-> Nothing]
    /\ dd_duplicates = <<>>
    /\ dd_dry_run = TRUE
    /\ dd_pc = "idle"
    /\ dd_queue = <<>>
    /\ dd_kept = {}
    /\ dd_removed = 0

MappingDefault ==
    /\ cm_pc = [p \in Procs |-> "idle"]
    /\ cm_evidence = [p \in Procs |-> 0]
    /\ cm_loaded = [p \in Procs |-> {}]
    /\ cm_state = "absent"
    /\ cm_file = {}
    /\ cm_next = 1
    /\ cm_written = {}

EnvDefault ==
    /\ env_token = TRUE
    /\ svc_minted = 0

TimelineFilesDefault ==
    /\ timeline_master = <<>>
    /\ CsvDefault

InitCsv ==
    /\ script = "add_chittyids_to_csv"
    /\ env_token \in BOOLEAN
    /\ svc_minted = 0
    /\ timeline_master \in MasterFiles
    /\ CsvDefault
    /\ NotionDefault
    /\ env_r2 = TRUE /\ env_neon = TRUE
    /\ AnalyzerDefault
    /\ BatchDefault /\ PipelineDefault /\ LedgerDefault
    /\ PreviewDefault
    /\ RcloneDefault
    /\ CliDefault
    /\ StatusDefault
    /\ IngestDefault
    /\ RegistryDefault
    /\ HashDefault
    /\ DedupeDefault
    /\ MappingDefault

NextCsv ==
    \/ main_no_token
    \/ process_timeline_csv_open
    \/ request_chitty_id_call
    \/ \E code \in HttpCodes : request_chitty_id_response(code)
    \/ request_chitty_id_retry
    \/ process_timeline_csv_return
    \/ enhance_timeline
    \/ update_csv_with_fake_chittyids

SpecCsv == InitCsv /\ [][NextCsv]_vars

\* a running script keeps running: urlopen returns, time.sleep(2) returns
SpecCsvFair == SpecCsv /\ WF_vars(NextCsv)

InitNotion ==
    /\ script = "timeline_to_notion_sync"
    /\ env_token \in BOOLEAN
    /\ svc_minted = 0
    /\ timeline_master \in MasterFiles
    /\ CsvDefault
    /\ NotionDefault
    /\ env_r2 = TRUE /\ env_neon = TRUE
    /\ AnalyzerDefault
    /\ BatchDefault /\ PipelineDefault /\ LedgerDefault
    /\ PreviewDefault
    /\ RcloneDefault
    /\ CliDefault
    /\ StatusDefault
    /\ IngestDefault
    /\ RegistryDefault
    /\ HashDefault
    /\ DedupeDefault
    /\ MappingDefault

NextNotion ==
    \/ process_timeline_for_notion_open
    \/ \E code \in HttpCodes : process_timeline_for_notion_row(code)
    \/ process_timeline_for_notion_return

SpecNotion == InitNotion /\ [][NextNotion]_vars

InitAnalyzer ==
    /\ script = "evidence_analyzer_chittyos"
    /\ env_token \in BOOLEAN
    /\ svc_minted = 0
    /\ timeline_master = <<>>
    /\ CsvDefault
    /\ NotionDefault
    /\ env_r2 \in BOOLEAN /\ env_neon \in BOOLEAN
    /\ AnalyzerDefault
    /\ BatchDefault /\ PipelineDefault /\ LedgerDefault
    /\ PreviewDefault
    /\ RcloneDefault
    /\ CliDefault
    /\ StatusDefault
    /\ IngestDefault
    /\ RegistryDefault
    /\ HashDefault
    /\ DedupeDefault
    /\ MappingDefault

NextAnalyzer ==
    \/ \E w \in Workers, path \in Paths : archive_source_document_begin(w, path)
    \/ \E w \in Workers : request_chitty_id_post(w)
    \/ \E w \in Workers, code \in HttpCodes : request_chitty_id_result(w, code)
    \/ \E w \in Workers : upsert_artifact(w)
    \/ \E w \in Workers : upsert_evidence(w)
    \/ \E w \in Workers : archive_source_document_end(w)
    \/ \E n \in 0..MaxRows : generate_timeline(n)

SpecAnalyzer == InitAnalyzer /\ [][NextAnalyzer]_vars

InitBatch ==
    /\ script = "batch"
    /\ EnvDefault /\ TimelineFilesDefault /\ NotionDefault
    /\ env_r2 = TRUE /\ env_neon = TRUE /\ AnalyzerDefault
    /\ loop_fn \in LoopFns
    /\ loop_n \in 0..MaxItems
    /\ loop_pos = 1
    /\ loop_pc = "loop"
    /\ loop_attempted = {}
    /\ loop_count = 0
    /\ loop_errors = 0
    /\ loop_first_failed = 0
    /\ PipelineDefault /\ LedgerDefault
    /\ PreviewDefault
    /\ RcloneDefault
    /\ CliDefault
    /\ StatusDefault
    /\ IngestDefault
    /\ RegistryDefault
    /\ HashDefault
    /\ DedupeDefault
    /\ MappingDefault

NextBatch ==
    \/ \E outcome \in Outcomes : run_analysis_item(outcome)
    \/ \E outcome \in Outcomes : process_evidence_batch_item(outcome)
    \/ \E outcome \in Outcomes : mint_all_evidence_item(outcome)
    \/ batch_loop_exit

SpecBatch == InitBatch /\ [][NextBatch]_vars

InitPipeline ==
    /\ script = "chain_status_workflow"
    /\ EnvDefault /\ TimelineFilesDefault /\ NotionDefault
    /\ env_r2 = TRUE /\ env_neon = TRUE /\ AnalyzerDefault
    /\ BatchDefault /\ PipelineDefault /\ LedgerDefault
    /\ PreviewDefault
    /\ RcloneDefault
    /\ CliDefault
    /\ StatusDefault
    /\ IngestDefault
    /\ RegistryDefault
    /\ HashDefault
    /\ DedupeDefault
    /\ MappingDefault

NextPipeline ==
    \/ process_evidence_pipeline_start
    \/ process_evidence_pipeline_stage_begin
    \/ \E count \in 0..MaxCount : process_evidence_pipeline_stage_completed(count)
    \/ process_evidence_pipeline_stage_raised
    \/ process_evidence_pipeline_save

SpecPipeline == InitPipeline /\ [][NextPipeline]_vars

InitLedger ==
    /\ script = "chittylegder_integration"
    /\ EnvDefault /\ TimelineFilesDefault /\ NotionDefault
    /\ env_r2 = TRUE /\ env_neon = TRUE /\ AnalyzerDefault
    /\ BatchDefault /\ PipelineDefault
    /\ flat_output \in FlatOutputs
    /\ metadata \in [Prefixes -> MetadataKinds]
    /\ ledger = <<>>
    /\ mappings = {}
    /\ sync_pc = "idle"
    /\ sync_remaining = {}
    /\ sync_existing = {}
    /\ sync_cur = <<>>
    /\ sync_page = 0
    /\ sync_count = 0
    /\ sync_result = "none"
    /\ sync_prev_clean = FALSE
    /\ sync_killed = {}
    /\ mint_caller = "none"
    /\ PreviewDefault
    /\ RcloneDefault
    /\ CliDefault
    /\ StatusDefault
    /\ IngestDefault
    /\ RegistryDefault
    /\ HashDefault
    /\ DedupeDefault
    /\ MappingDefault

NextLedger ==
    \/ sync_pending_evidence_start
    \/ \E f \in FlatFiles : sync_pending_evidence_file(f)
    \/ mint_evidence_create
    \/ mint_evidence_raise
    \/ mint_evidence_store_mapping
    \/ sync_pending_evidence_return
    \/ process_killed

SpecLedger == InitLedger /\ [][NextLedger]_vars

\* sync_pending_evidence run again and again by a process that is never killed.
\* Each run is started and goes on, and the Notion API accepts the page of the
\* file hash SucceedingHash whenever it is asked to create it; for the other
\* hashes pages.create may raise every time.
SucceedingHash == <<"bbbb", "1">>

NextSyncRetry ==
    \/ sync_pending_evidence_start
    \/ \E f \in FlatFiles : sync_pending_evidence_file(f)
    \/ mint_evidence_create
    \/ mint_evidence_raise
    \/ mint_evidence_store_mapping
    \/ sync_pending_evidence_return

SpecSyncRetryFair ==
    /\ InitLedger
    /\ [][NextSyncRetry]_vars
    /\ WF_vars(NextSyncRetry)
    /\ SF_vars(mint_evidence_create /\ NameHash(sync_cur) = SucceedingHash)

\* the bridge as process_evidence_pipeline uses it: _mint_all_evidence calls
\* mint_evidence, and sync_pending_evidence may run before or after
NextMintAll ==
    \/ NextLedger
    \/ \E f \in FlatFiles : mint_all_evidence_mint(f)

SpecMintAll == InitLedger /\ [][NextMintAll]_vars

InitPreview ==
    /\ script = "process_flow_of_funds"
    /\ EnvDefault /\ TimelineFilesDefault /\ NotionDefault
    /\ env_r2 = TRUE /\ env_neon = TRUE /\ AnalyzerDefault
    /\ BatchDefault /\ PipelineDefault /\ LedgerDefault
    /\ pv_files \in SUBSET PackageFiles
    /\ pv_pc = "idle"
    /\ pv_list = <<>>
    /\ pv_pos = 1
    /\ pv_attempted = <<>>
    /\ pv_stats = NoStatistics
    /\ pv_prev_attempted = <<>>
    /\ pv_prev_stats = NoStatistics
    /\ pv_runs = 0
    /\ RcloneDefault
    /\ CliDefault
    /\ StatusDefault
    /\ IngestDefault
    /\ RegistryDefault
    /\ HashDefault
    /\ DedupeDefault
    /\ MappingDefault

NextPreview ==
    \/ \E order \in AllEnumerations : generate_early_preview_collect(order)
    \/ process_evidence_batch_path
    \/ generate_early_preview_report

SpecPreview == InitPreview /\ [][NextPreview]_vars

\* the three scripts that write identifier columns
InitIdentifiers == InitCsv \/ InitNotion \/ InitAnalyzer

NextIdentifiers == NextCsv \/ NextNotion \/ NextAnalyzer

SpecIdentifiers == InitIdentifiers /\ [][NextIdentifiers]_vars

----------------------------------------------------------------------------
(* Claims *)

\* C1: request_chitty_id caps its retries on rate-limit responses: whatever the
\* service answers (HTTP 429 to every request included), a call that has sent
\* its request eventually ends, by returning or by raising.
C1_RetriesCapped ==
    (csv_pc = "request") ~> (csv_pc \notin {"request", "sleep"})

\* C2: across any sequence of archive_source_document calls (one caller, one
\* call after the other), at most one mint request is sent per content hash and
\* every call for that hash obtains the same chitty_id.
SequentialCallsOnly == \A w \in Workers \ {1} : w_path[w] = NoPath

C2_OneMintPerHash ==
    SequentialCallsOnly =>
        \A h \in Hashes : mint_requests[h] <= 1 /\ Cardinality(mint_obtained[h]) <= 1

\* C3: a failed or unavailable mint is never replaced by a locally fabricated
\* placeholder: every identifier that process_timeline_csv writes, that
\* process_timeline_for_notion appends and that generate_timeline saves is one
\* the minting service returned.
C3_OnlyServiceIdsEmitted ==
    /\ csv_pc # "idle" =>
          \A i \in 1..Len(file_with_ids.rows) :
              IsServiceId(file_with_ids.rows[i].service_chitty_id)
    /\ \A i \in 1..Len(notion_entries) : IsServiceId(notion_entries[i])
    /\ \A i \in 1..Len(timeline_latest) : IsServiceId(timeline_latest[i])

\* C4: once a row of out/timeline_master_with_chittyids.csv holds an identifier
\* minted by the service, neither enhance_timeline nor
\* update_csv_with_fake_chittyids changes that row's identifier.
ServiceIdsKept ==
    \A i \in 1..Len(file_with_ids.rows) :
        IsServiceId(file_with_ids.rows[i].service_chitty_id) =>
            /\ i <= Len(file_with_ids'.rows)
            /\ file_with_ids'.rows[i].service_chitty_id =
                   file_with_ids.rows[i].service_chitty_id

C4_MintedIdNeverOverwritten ==
    [][(enhance_timeline \/ update_csv_with_fake_chittyids) => ServiceIdsKept]_vars

\* C7: when several workers run archive_source_document on the same new content
\* at the same time, one mint request is sent in total and the workers hold the
\* same chitty_id.
InCall(w) == w_pc[w] # "idle"

C7_ConcurrentWorkersMintOnce ==
    \A w1, w2 \in Workers :
        (/\ w1 # w2
         /\ InCall(w1) /\ InCall(w2)
         /\ compute_file_hash(w_path[w1]) = compute_file_hash(w_path[w2]))
        => /\ mint_requests[compute_file_hash(w_path[w1])] <= 1
           /\ (w_chitty[w1] # NoId /\ w_chitty[w2] # NoId) => w_chitty[w1] = w_chitty[w2]

\* C5: in run_analysis, process_evidence_batch and _mint_all_evidence a failure
\* raised while processing one item is caught and does not abort the batch: the
\* loop never ends by an exception, and when it ends every item it iterates
\* over (for process_evidence_batch the first PreviewLimit paths) was attempted.
C5_FailureDoesNotAbortBatch ==
    /\ loop_pc # "aborted"
    /\ loop_pc = "done" => loop_attempted = 1..LoopRange(loop_fn, loop_n)

\* an item raised and the items after it were attempted all the same
C5_Witness ==
    /\ script = "batch"
    /\ loop_pc = "done"
    /\ loop_first_failed > 0
    /\ loop_first_failed < LoopRange(loop_fn, loop_n)
    /\ (loop_first_failed + 1) \in loop_attempted
    /\ LoopRange(loop_fn, loop_n) \in loop_attempted

\* C6: process_evidence_pipeline always finalizes its run record: whenever it
\* returns, the record saved and returned has pipeline_end set and a success
\* flag recorded.
C6_RunRecordFinalized ==
    pl_pc[1] = "returned" => (pl_saved /\ pl_end /\ pl_success # "unset")

\* C8: if the process is killed inside mint_evidence after the ledger page was
\* created and before the mapping was written, later sync_pending_evidence runs
\* do not create a second ledger page for that file hash.
NoSharedNameHash ==
    \A f, g \in flat_output : NameHash(f) = NameHash(g) => f = g

C8_KilledMintNotDuplicated ==
    NoSharedNameHash => \A h \in sync_killed : Cardinality(PagesOf(h)) <= 1

\* C9: after any sequence of sync_pending_evidence runs (none of them killed
\* between page and mapping) the ledger and evidence_mappings.json hold at most
\* one entry per file hash.
C9_OneEntryPerHash ==
    sync_killed = {} =>
        \A h \in HashTokens :
            Cardinality(PagesOf(h)) <= 1 /\ Cardinality(MappingsOf(h)) <= 1

\* C10: a sync_pending_evidence run that follows a run which returned normally
\* (flat_output unchanged) mints nothing: it returns 0 and every mapping entry
\* is as it was when the run started.
SecondRunReturned ==
    /\ script = "chittylegder_integration"
    /\ sync_pc = "idle"
    /\ sync_result = "returned"
    /\ sync_prev_clean

C10_SecondRunMintsNothing ==
    SecondRunReturned => (sync_count = 0 /\ mappings = sync_existing)

\* a second run returned over mappings the first run wrote
C10_Witness ==
    /\ SecondRunReturned
    /\ sync_existing # {}
    /\ sync_count = 0

\* the ledger has a page, and evidence_mappings.json an entry, for this
\* file_hash under this chitty_id
AlreadyMinted(h, chitty) ==
    /\ \E i \in 1..Len(ledger) : ledger[i].file_hash = h /\ ledger[i].chitty_id = chitty
    /\ \E m \in mappings : m.file_hash = h /\ m.chitty_id = chitty

MintingAgain ==
    /\ sync_cur \in FlatFiles
    /\ AlreadyMinted(NameHash(sync_cur), MetaChittyId(Prefix16(NameHash(sync_cur))))

\* C11: a call of mint_evidence for a file_hash and chitty_id that are already
\* minted creates no further ledger page and no further mapping entry.
C11_MintEvidenceIdempotent ==
    [][((mint_evidence_create \/ mint_evidence_store_mapping) /\ MintingAgain)
          => (ledger' = ledger /\ mappings' = mappings)]_vars

\* a file the run still has to mint: not in existing_mappings, metadata with a
\* chitty_id
Unsynced(f) ==
    ~already_synced(NameHash(f), sync_existing) /\ HasChittyId(NameHash(f))

\* C12: when the mint of one file fails in sync_pending_evidence, the run goes
\* on: it does not end while an unsynced file of flat_output is still unattempted.
C12_SyncFailureDoesNotAbortRun ==
    (sync_pc = "idle" /\ sync_result = "raised")
        => \A f \in sync_remaining : ~Unsynced(f)

\* C13: under repeated sync_pending_evidence runs, a file whose own mint would
\* succeed is eventually minted, whatever happens to the mints of other files.
C13_SucceedingFileEventuallyMinted ==
    ((\E f \in flat_output : NameHash(f) = SucceedingHash) /\ HasChittyId(SucceedingHash))
        ~> (MappingsOf(SucceedingHash) # {})

\* C14: archive_source_document sends no mint request for a file before the
\* file's record has been upserted to the ledger store (upsert_artifact).
C14_UpsertBeforeMint ==
    \A h \in Hashes : mint_requests[h] > 0 => h \in neon_artifacts

\* C15: add_chittyids_to_csv and timeline_to_notion_sync exit with 0 only when
\* every row was minted: no row failed and got a placeholder.
C15_ExitZeroOnlyOnFullSuccess ==
    /\ csv_exit = 0 => csv_processed = Len(csv_rows)
    /\ notion_exit = 0 => \A i \in 1..Len(notion_entries) : IsServiceId(notion_entries[i])

\* C16: two runs of generate_early_preview over the same files process the same
\* files in the same order and report the same statistics, whatever order the
\* file system lists the files in.
C16_PreviewRunsIdentical ==
    (pv_pc = "idle" /\ pv_runs >= 2)
        => (pv_attempted = pv_prev_attempted /\ pv_stats = pv_prev_stats)

Kept(file) == \E i \in 1..Len(rc_dedup) : rc_dedup[i] = file
Listed(file) == \E i \in 1..Len(rc_files) : rc_files[i] = file

\* C17: get_all_files_from_rclone treats two listed files as the same item
\* exactly when their bytes are identical: every file it drops has the content
\* of a file it keeps, and no two files it keeps have the same content.
C17_DedupByContentOnly ==
    rc_pc = "returned" =>
        /\ \A f \in RcEntries : (Listed(f) /\ ~Kept(f)) =>
               \E g \in RcEntries : Kept(g) /\ g.Content = f.Content
        /\ \A f, g \in RcEntries : (Kept(f) /\ Kept(g) /\ f.Content = g.Content) => f = g

InListing(m) == \E i \in 1..Len(cli_listing) : cli_listing[i] = m
Recorded(f) == \E m \in cli_metadata : m.file_path = f

\* C18: when list_evidence returns, its listing holds the record of every
\* metadata file, and scan reports no file as new that has a metadata record.
C18_NoRecordSilentlyOmitted ==
    cli_result = "returned" =>
        /\ \A m \in cli_metadata : InListing(m)
        /\ cli_op = "scan" => \A i \in 1..Len(cli_new) : ~Recorded(cli_new[i])

\* C19: update_evidence_status changes the ledger status or appends a chain
\* event only for an allowed transition from the current status; otherwise it
\* returns False and changes neither.
C19_OnlyAllowedTransitionsApplied ==
    [][/\ (st_status' # st_status \/ st_events' # st_events)
           => st_status' \in allowed_transitions[st_status]
       /\ (\E new_status \in ChainStatus :
              /\ update_evidence_status(new_status, TRUE)
              /\ new_status \notin allowed_transitions[st_status])
           => (~st_returned' /\ st_status' = st_status /\ st_events' = st_events)
      ]_vars

C21_CacheUpdatedOnSuccessOnly ==
    [][/\ \A n \in DOMAIN sc_cache : n \in DOMAIN sc_cache' /\ sc_cache'[n] = sc_cache[n]
       /\ sc_cache' # sc_cache =>
             /\ sc_last'.asked /\ sc_last'.result \in RegistryUrls
             /\ sc_requests' = sc_requests + 1
             /\ DOMAIN sc_cache' = DOMAIN sc_cache \cup {sc_last'.name}
             /\ sc_cache'[sc_last'.name] = sc_last'.result
       /\ (sc_last' # sc_last /\ sc_last'.name \in DOMAIN sc_cache) =>
             /\ sc_last'.result = sc_cache[sc_last'.name]
             /\ ~sc_last'.asked /\ sc_requests' = sc_requests
       /\ sc_last'.result = "raised" => sc_cache' = sc_cache
      ]_vars

\* a call for a cached service has just returned the cached URL without a
\* request, after the registry had been asked at least once
C21_Witness ==
    /\ script = "resolve_service"
    /\ sc_last.name \in DOMAIN sc_cache
    /\ ~sc_last.asked
    /\ sc_last.result = sc_cache[sc_last.name]
    /\ sc_requests >= 1

\* C22: within one request_chitty_id call another request is sent only after
\* a 429 response; any other error status makes the call raise at once, with
\* no further request; a 200 response makes it return the id the service
\* minted, which is the id written to the row.
C22_OnlyRateLimitRetried ==
    [][/\ (rq_requests >= 1 /\ rq_requests' = rq_requests + 1) =>
             rq_last = [outcome |-> "pending", code |-> 429]
       /\ (rq_last' # rq_last /\ rq_last'.code \notin {0, 200, 429}) =>
             /\ rq_last'.outcome = "raised"
             /\ rq_requests' = rq_requests
             /\ csv_pc' = "loop"
       /\ (rq_last' # rq_last /\ rq_last'.code = 200) =>
             /\ rq_last'.outcome = "returned"
             /\ rq_requests' = rq_requests
             /\ svc_minted' = svc_minted + 1
             /\ Len(file_with_ids'.rows) = Len(file_with_ids.rows) + 1
             /\ file_with_ids'.rows[Len(file_with_ids'.rows)].service_chitty_id
                    = ServiceId(svc_minted')
      ]_vars

\* one file in which a row failed on its first response (500, one request)
\* and another row got its id after a rate-limited first request
C22_Witness ==
    /\ script = "add_chittyids_to_csv"
    /\ Len(file_with_ids.rows) = 2
    /\ file_with_ids.rows[1].service_chitty_id.kind = "ERROR"
    /\ rq_last = [outcome |-> "returned", code |-> 200]
    /\ rq_requests = 2

\* C23: a digest returned by generate_file_hash or calculate_file_hash is the
\* digest of the file's whole content hashed at once, so two files with the
\* same bytes get the same digest whatever their paths; and no step of the
\* hashing changes a file.
C23_DigestOfBytesOnly ==
    [][/\ fs_files' = fs_files /\ fs_readable' = fs_readable
       /\ \A p \in HashPaths :
             h_result'[p] >= 0 => h_result'[p] = sha256_whole(fs_files[p])
       /\ \A p, q \in HashPaths :
             (h_result'[p] >= 0 /\ h_result'[q] >= 0 /\ fs_files[p] = fs_files[q])
                => h_result'[p] = h_result'[q]
      ]_vars

\* two files of different names with the same content, longer than one chunk
\* and not a whole number of chunks, have both been hashed
C23_Witness ==
    /\ script = "file_hash"
    /\ HashIdle
    /\ fs_files["in/a.pdf"] = fs_files["out/b.txt"]
    /\ Len(fs_files["in/a.pdf"]) = ChunkSize + 1
    /\ h_result["in/a.pdf"] >= 0
    /\ h_result["out/b.txt"] = h_result["in/a.pdf"]

\* C24: with the R2 credentials, the token and the Neon connection configured
\* and the mint request answered successfully, archive_source_document does not
\* end in an exception: it returns the record carrying the minted chitty_id.
C24_ArchiveReturnsRecord ==
    \A w \in Workers :
        (env_r2 /\ env_token /\ env_neon /\ w_chitty[w] # NoId) => w_pc[w] # "raised"

\* C25: when remove_duplicates(find_duplicates(directory), dry_run=False) has
\* returned, the first path of every set is still there and every content
\* that was on disk when the call began is still on disk.
C25_EveryContentKept ==
    (dd_pc = "returned" /\ ~dd_dry_run) =>
        /\ \A q \in dd_kept : dd_tree[q] = dd_before[q]
        /\ ContentOnDisk(dd_before) \subseteq ContentOnDisk(dd_tree)

\* C26: while and after remove_duplicates runs with dry_run=True the
\* directory tree is what it was when the call began, whatever duplicates
\* argument it was given.
C26_DryRunDeletesNothing ==
    (dd_pc \in {"removing", "returned"} /\ dd_dry_run) => dd_tree = dd_before

\* a dry run over a caller-made list has returned, having counted two files
\* it would remove
C26_Witness ==
    /\ script = "dedupe_and_organize"
    /\ dd_pc = "returned" /\ dd_dry_run
    /\ dd_removed >= 2
    /\ Len(dd_duplicates) = 1

\* C27: the list get_all_files_from_rclone returns holds, for every
\* (Name, Size) key of the listing, exactly one entry, and that entry is a
\* listed file whose Path is no longer than that of any listed file of the key.
C27_OneShortestEntryPerKey ==
    rc_pc = "returned" =>
        /\ \A i \in 1..Len(rc_dedup) : Listed(rc_dedup[i])
        /\ \A f \in RcEntries : Listed(f) =>
              /\ Cardinality({i \in 1..Len(rc_dedup) : RcKey(rc_dedup[i]) = RcKey(f)}) = 1
              /\ \A i \in 1..Len(rc_dedup) :
                    RcKey(rc_dedup[i]) = RcKey(f)
                       => DirLen(rc_dedup[i].Dir) + NameLen(rc_dedup[i].Name)
                             <= DirLen(f.Dir) + NameLen(f.Name)

\* the listing held a key twice, the longer path first, and a second key; the
\* entry of the first key was replaced by the shorter path
C27_Witness ==
    /\ script = "rclone_to_notion_sync"
    /\ rc_pc = "returned"
    /\ Len(rc_files) = 3 /\ Len(rc_dedup) = 2
    /\ RcKey(rc_files[1]) = RcKey(rc_files[2])
    /\ rc_files[1].Dir = "copy/" /\ rc_files[2].Dir = ""
    /\ rc_dedup[1] = rc_files[2]

\* C28: in the record of process_evidence_pipeline a stage is "in_progress" or
\* "completed" only if every earlier stage is "completed", at most one stage
\* is "in_progress", and in the record saved and returned success is True
\* exactly when all four stages are "completed".
C28_StagesAdvanceInOrder ==
    pl_stages # <<>> =>
        /\ \A k \in Stages :
              pl_stages[k] \in {"in_progress", "completed"} =>
                 \A j \in 1..(k - 1) : pl_stages[j] = "completed"
        /\ Cardinality({k \in Stages : pl_stages[k] = "in_progress"}) <= 1
        /\ pl_pc[1] \in {"save", "returned"} =>
              (pl_success = "True" <=> \A k \in Stages : pl_stages[k] = "completed")

\* the record returned by a run whose third stage raised
C28_Witness ==
    /\ script = "chain_status_workflow"
    /\ pl_pc[1] = "returned"
    /\ pl_stages = <<"completed", "completed", "in_progress", "pending">>
    /\ pl_success = "False"

\* C29: once the mint_evidence calls of all processes are over,
\* evidence_mappings.json holds the entry of every evidence id whose
\* _store_mapping call wrote the file and returned.
C29_NoMappingLost ==
    (\A p \in Procs : cm_pc[p] = "idle") =>
        \A e \in cm_written : \E m \in cm_file : m.evidence_id = e

\* C30: while process_timeline_csv runs, the output holds one row for each
\* input row handled so far, in input order, each the input row with its
\* service_chitty_id set; and the function returns only when the output
\* holds one row for every input row, whatever the mint requests gave.
OutputFollowsInput ==
    /\ Len(file_with_ids.rows) = csv_idx - 1
    /\ Len(file_with_ids.rows) <= Len(csv_rows)
    /\ \A i \in 1..Len(file_with_ids.rows) :
          [file_with_ids.rows[i] EXCEPT
              !.service_chitty_id = csv_rows[i].service_chitty_id] = csv_rows[i]

C30_OneOutputRowPerInputRow ==
    /\ [](csv_pc \in {"loop", "request", "sleep"} => OutputFollowsInput)
    /\ [][(csv_pc = "loop" /\ csv_pc' = "idle") =>
            /\ Len(file_with_ids'.rows) = Len(csv_rows)
            /\ \A i \in 1..Len(csv_rows) :
                  [file_with_ids'.rows[i] EXCEPT
                      !.service_chitty_id = csv_rows[i].service_chitty_id] = csv_rows[i]
         ]_vars

\* the loop is over two rows: the mint of the first failed, the second got an id
C30_Witness ==
    /\ script = "add_chittyids_to_csv"
    /\ csv_pc = "loop"
    /\ Len(csv_rows) = 2 /\ csv_idx = 3
    /\ Len(file_with_ids.rows) = 2
    /\ file_with_ids.rows[1].service_chitty_id.kind = "ERROR"
    /\ file_with_ids.rows[2].service_chitty_id.kind = "service"

----------------------------------------------------------------------------

\* lines 20-29: `rclone lsjson` returned the listing; seen, deduplicated empty
InitRclone ==
    /\ script = "rclone_to_notion_sync"
    /\ EnvDefault /\ TimelineFilesDefault /\ NotionDefault
    /\ env_r2 = TRUE /\ env_neon = TRUE /\ AnalyzerDefault
    /\ BatchDefault /\ PipelineDefault /\ LedgerDefault /\ PreviewDefault
    /\ rc_files \in Listings
    /\ rc_pc = "dedup"
    /\ rc_idx = 1
    /\ rc_seen = <<>>
    /\ rc_dedup = <<>>
    /\ CliDefault
    /\ StatusDefault
    /\ IngestDefault
    /\ RegistryDefault
    /\ HashDefault
    /\ DedupeDefault
    /\ MappingDefault

NextRclone ==
    \/ get_all_files_from_rclone_file
    \/ get_all_files_from_rclone_return

SpecRclone == InitRclone /\ [][NextRclone]_vars

\* __init__, lines 19-34; the directories hold what earlier runs left
InitCli ==
    /\ script = "evidence_cli"
    /\ EnvDefault /\ TimelineFilesDefault /\ NotionDefault
    /\ env_r2 = TRUE /\ env_neon = TRUE /\ AnalyzerDefault
    /\ BatchDefault /\ PipelineDefault /\ LedgerDefault /\ PreviewDefault
    /\ RcloneDefault
    /\ cli_metadata \in MetadataDirs
    /\ cli_case \in SUBSET CasePaths
    /\ cli_op = "none"
    /\ cli_result = "none"
    /\ cli_listing = <<>>
    /\ cli_new = <<>>
    /\ StatusDefault
    /\ IngestDefault
    /\ RegistryDefault
    /\ HashDefault
    /\ DedupeDefault
    /\ MappingDefault

AllMetadataOrders == UNION {Enumerations(S) : S \in MetadataDirs}
AllCaseOrders == UNION {Enumerations(S) : S \in SUBSET CasePaths}

NextCli ==
    \/ \E order \in AllMetadataOrders : list_evidence(order)
    \/ \E files \in AllCaseOrders, order \in AllMetadataOrders : scan(files, order)

SpecCli == InitCli /\ [][NextCli]_vars

\* an evidence page of the ledger, in whatever status it was left
InitStatus ==
    /\ script = "update_evidence_status"
    /\ EnvDefault /\ TimelineFilesDefault /\ NotionDefault
    /\ env_r2 = TRUE /\ env_neon = TRUE /\ AnalyzerDefault
    /\ BatchDefault /\ PipelineDefault /\ LedgerDefault /\ PreviewDefault
    /\ RcloneDefault /\ CliDefault
    /\ st_status \in ChainStatus
    /\ st_events = <<>>
    /\ st_returned = FALSE
    /\ IngestDefault
    /\ RegistryDefault
    /\ HashDefault
    /\ DedupeDefault
    /\ MappingDefault

NextStatus ==
    \E new_status \in ChainStatus, updated \in BOOLEAN :
        update_evidence_status(new_status, updated)

SpecStatus == InitStatus /\ [][NextStatus]_vars

\* __init__, lines 23-39: CHITTY_ID_TOKEN is set, or the client is not built
InitIngest ==
    /\ script = "chittyos_service_client"
    /\ env_token = TRUE /\ svc_minted = 0
    /\ TimelineFilesDefault /\ NotionDefault
    /\ env_r2 = TRUE /\ env_neon = TRUE /\ AnalyzerDefault
    /\ BatchDefault /\ PipelineDefault /\ LedgerDefault /\ PreviewDefault
    /\ RcloneDefault /\ CliDefault /\ StatusDefault
    /\ ing_pc = "idle"
    /\ ing_places = 0
    /\ ing_canonical = 0
    /\ ing_calls = <<>>
    /\ ing_failed = "none"
    /\ ing_stored = 0
    /\ RegistryDefault
    /\ HashDefault
    /\ DedupeDefault
    /\ MappingDefault

NextIngest ==
    \/ \E places \in 0..MaxPlaces : ingest_evidence_begin(places)
    \/ \E result \in StepResults, accepted \in 0..MaxPlaces :
          canonicalize_entities(result, accepted)
    \/ \E result \in StepResults : mint_chitty_id(result)
    \/ \E result \in StepResults : validate_evidence_schema(result)
    \/ \E result \in StepResults : verify_evidence_trust(result)
    \/ \E result \in StepResults : validate_compliance(result)
    \/ \E result \in StepResults : store_evidence_record(result)

SpecIngest == InitIngest /\ [][NextIngest]_vars

\* __init__, lines 23-39: the cache starts empty
InitRegistry ==
    /\ script = "resolve_service"
    /\ env_token = TRUE /\ svc_minted = 0
    /\ TimelineFilesDefault /\ NotionDefault
    /\ env_r2 = TRUE /\ env_neon = TRUE /\ AnalyzerDefault
    /\ BatchDefault /\ PipelineDefault /\ LedgerDefault /\ PreviewDefault
    /\ RcloneDefault /\ CliDefault /\ StatusDefault /\ IngestDefault
    /\ sc_token \in BOOLEAN
    /\ sc_cache = <<>>
    /\ sc_requests = 0
    /\ sc_last = NoCall
    /\ HashDefault
    /\ DedupeDefault
    /\ MappingDefault

NextRegistry ==
    \E service_name \in ServiceNames, response \in RegistryUrls \cup {"not_ok"} :
        resolve_service(service_name, response)

SpecRegistry == InitRegistry /\ [][NextRegistry]_vars

\* any two files, of any content, readable or not
InitHash ==
    /\ script = "file_hash"
    /\ env_token = TRUE /\ svc_minted = 0
    /\ TimelineFilesDefault /\ NotionDefault
    /\ env_r2 = TRUE /\ env_neon = TRUE /\ AnalyzerDefault
    /\ BatchDefault /\ PipelineDefault /\ LedgerDefault /\ PreviewDefault
    /\ RcloneDefault /\ CliDefault /\ StatusDefault /\ IngestDefault
    /\ RegistryDefault
    /\ fs_files \in [HashPaths -> FileContents]
    /\ fs_readable \in SUBSET HashPaths
    /\ h_fn = "generate_file_hash"
    /\ h_path = "in/a.pdf"
    /\ h_pos = 0
    /\ h_hasher = sha256_new
    /\ h_result = [p \in HashPaths |-> -1]
    /\ DedupeDefault
    /\ MappingDefault

NextHash ==
    \/ \E fn \in HashFns, file_path \in HashPaths : hash_open(fn, file_path)
    \/ hash_read_chunk

SpecHash == InitHash /\ [][NextHash]_vars

\* any directory of regular files and symbolic links
InitDedupe ==
    /\ script = "dedupe_and_organize"
    /\ env_token = TRUE /\ svc_minted = 0
    /\ TimelineFilesDefault /\ NotionDefault
    /\ env_r2 = TRUE /\ env_neon = TRUE /\ AnalyzerDefault
    /\ BatchDefault /\ PipelineDefault /\ LedgerDefault /\ PreviewDefault
    /\ RcloneDefault /\ CliDefault /\ StatusDefault /\ IngestDefault
    /\ RegistryDefault /\ HashDefault
    /\ dd_tree \in [DdPaths -> DdEntries]
    /\ dd_before = dd_tree
    /\ dd_duplicates = <<>>
    /\ dd_dry_run = TRUE
    /\ dd_pc = "idle"
    /\ dd_queue = <<>>
    /\ dd_kept = {}
    /\ dd_removed = 0
    /\ MappingDefault

\* __main__, lines 147-156: find_duplicates, then remove_duplicates
NextDedupeMain ==
    \/ \E order \in DdOrders : find_duplicates(order)
    \/ \E dry_run \in BOOLEAN : remove_duplicates_begin(dry_run)
    \/ remove_duplicates_file
    \/ remove_duplicates_return

SpecDedupeMain == InitDedupe /\ [][NextDedupeMain]_vars

\* remove_duplicates called with any duplicates argument
NextDedupe ==
    \/ NextDedupeMain
    \/ \E file_paths \in GivenLists : duplicates_given(file_paths)

SpecDedupe == InitDedupe /\ [][NextDedupe]_vars

\* a fresh metadata directory: no evidence_mappings.json yet
InitMapping ==
    /\ script = "concurrent_mint_evidence"
    /\ env_token = TRUE /\ svc_minted = 0
    /\ TimelineFilesDefault /\ NotionDefault
    /\ env_r2 = TRUE /\ env_neon = TRUE /\ AnalyzerDefault
    /\ BatchDefault /\ PipelineDefault /\ LedgerDefault /\ PreviewDefault
    /\ RcloneDefault /\ CliDefault /\ StatusDefault /\ IngestDefault
    /\ RegistryDefault /\ HashDefault /\ DedupeDefault
    /\ cm_pc = [p \in Procs |-> "idle"]
    /\ cm_evidence = [p \in Procs |-> 0]
    /\ cm_loaded = [p \in Procs |-> {}]
    /\ cm_state = "absent"
    /\ cm_file = {}
    /\ cm_next = 1
    /\ cm_written = {}

NextMapping ==
    \/ \E p \in Procs : mint_evidence_pages_create(p)
    \/ \E p \in Procs : store_mapping_load(p)
    \/ \E p \in Procs : store_mapping_open(p)
    \/ \E p \in Procs : store_mapping_dump(p)

SpecMapping == InitMapping /\ [][NextMapping]_vars

Init ==
    \/ InitCsv \/ InitNotion \/ InitAnalyzer \/ InitBatch \/ InitPipeline \/ InitLedger
    \/ InitPreview \/ InitRclone \/ InitCli \/ InitStatus \/ InitIngest
    \/ InitRegistry \/ InitHash \/ InitDedupe \/ InitMapping

Next ==
    \/ NextCsv \/ NextNotion \/ NextAnalyzer \/ NextBatch \/ NextPipeline \/ NextMintAll
    \/ NextPreview \/ NextRclone \/ NextCli \/ NextStatus \/ NextIngest
    \/ NextRegistry \/ NextHash \/ NextDedupe \/ NextMapping

Spec == Init /\ [][Next]_vars

====
